---- MODULE Spec2Model ----
(***************************************************************************)
(* Scheduling and execution engine of the ETL job scheduler:               *)
(*   src/ETLJob/scheduler_engine.py  SchedulerEngine (loop, execute_job)   *)
(*   src/ETLJob/job_manager.py       JobManager (the SQLite job store)     *)
(*   src/ETLJob/etl_scheduler.py     ETLSchedulerApp (Run Now, delete)     *)
(*                                                                         *)
(* Threads: the scheduler loop, one thread per execute_job call, the UI.   *)
(* Every store call is one committed statement, so each is one step.       *)
(* Time is the wall clock in seconds; every clock reading of a run falls   *)
(* on a multiple of TickStep, and time passes only between steps.          *)
(***************************************************************************)
EXTENDS Integers, Sequences, FiniteSets, TLC

VARIABLES now, jobs, deps, executions, running_jobs, calls, loop, call_budget, fault_budget,
          engine, sqlite_sequence, given, file, dialog

\* engine: self.running, the holder of self.lock, and where a caller of
\*   stop() is; sqlite_sequence: the last id AUTOINCREMENT gave a job;
\* given: what each creator of a job holds (the job_data it passed for the id
\*   it got back); file: the JSON file export_jobs wrote; dialog: the job
\*   dialog whose save() is under way
others == <<engine, sqlite_sequence, given, file, dialog>>

vars == <<now, jobs, deps, executions, running_jobs, calls, loop, call_budget, fault_budget,
          engine, sqlite_sequence, given, file, dialog>>

(* ------------------------------ bounds -------------------------------- *)
\* clock ticks the model lets pass
MaxTicks == 2
\* execute_job calls (scheduler dispatches plus Run Now clicks) in one run
MaxCalls == 2
\* execute_job calls in one run that spans several poll cycles
MaxTimedCalls == 1
\* exceptions the store, the notifier and the status callback raise in one run
MaxFaults == 1
\* the largest max_retries a job is given
MaxRetries == 2
\* execution records the store holds when the engine starts
MaxRecords == 2

(* --------------------------- program constants ------------------------ *)
\* time.sleep(30) at the end of a poll cycle
PollPeriod == 30
\* (datetime.now() - last_run_dt).total_seconds() > 60
DebounceSeconds == 60
\* timedelta(minutes=...) in seconds
SecondsPerMinute == 60
\* SQL NULL / Python None in a timestamp or integer column
NULL == -1

\* the clock readings are whole minutes
TickStep == SecondsPerMinute
MaxTime == MaxTicks * TickStep

\* the jobs table holds two rows; ORDER BY name is the order of the ids
JobIds == {1, 2}

(* ------------------------------ schedules ----------------------------- *)
\* cron expressions in use: every minute, and one croniter rejects
CronEveryMinute == "* * * * *"
CronMalformed == "not a cron"

\* the schedule columns a job row can hold (job_dialog.save writes them, its
\* validate accepting interval "0" and any non-empty cron text; import_jobs
\* hands create_job whatever the file holds)
Schedules ==
  { [schedule_type |-> "manual",   interval_minutes |-> NULL, cron_expression |-> ""],
    [schedule_type |-> "interval", interval_minutes |-> 1,    cron_expression |-> ""],
    [schedule_type |-> "interval", interval_minutes |-> 0,    cron_expression |-> ""],
    [schedule_type |-> "cron",     interval_minutes |-> NULL, cron_expression |-> CronEveryMinute],
    [schedule_type |-> "cron",     interval_minutes |-> NULL, cron_expression |-> CronMalformed],
    [schedule_type |-> "cron",     interval_minutes |-> NULL, cron_expression |-> ""] }

\* a row of the jobs table as create_job leaves it (schema defaults)
NewJob(s, retries, email) ==
  [ exists |-> TRUE, enabled |-> TRUE,
    schedule_type |-> s.schedule_type,
    interval_minutes |-> s.interval_minutes,
    cron_expression |-> s.cron_expression,
    status |-> "idle", last_run |-> NULL, next_run |-> NULL,
    max_retries |-> retries,
    timeout_seconds |-> NULL,
    notification_email |-> email,
    notify_on_success |-> FALSE, notify_on_failure |-> TRUE ]

(* ------------------------------ job store ----------------------------- *)
\* SELECT * FROM jobs WHERE id = ?  (a row with exists = FALSE stands for None)
get_job(job_id) == jobs[job_id]

\* UPDATE jobs SET <field> = ? WHERE id = ?  (no row, no change)
update_job_status(js, job_id, value) ==
  IF js[job_id].exists THEN [js EXCEPT ![job_id].status = value] ELSE js

update_job_last_run(js, job_id, timestamp) ==
  IF js[job_id].exists THEN [js EXCEPT ![job_id].last_run = timestamp] ELSE js

update_job_next_run(js, job_id, timestamp) ==
  IF js[job_id].exists THEN [js EXCEPT ![job_id].next_run = timestamp] ELSE js

\* dict(row) of a fetched row: the columns the scheduler loop reads
JobRow(m) ==
  [ id |-> m,
    schedule_type |-> jobs[m].schedule_type,
    interval_minutes |-> jobs[m].interval_minutes,
    cron_expression |-> jobs[m].cron_expression,
    last_run |-> jobs[m].last_run,
    next_run |-> jobs[m].next_run ]

\* SELECT * FROM jobs WHERE enabled = 1 ORDER BY name
RECURSIVE RowsFrom(_)
RowsFrom(S) ==
  IF S = {} THEN <<>>
  ELSE LET m == CHOOSE x \in S : \A y \in S : x <= y
       IN  <<JobRow(m)>> \o RowsFrom(S \ {m})

get_enabled_jobs == RowsFrom({j \in JobIds : jobs[j].exists /\ jobs[j].enabled})

\* INSERT INTO job_executions (job_id, start_time, status, triggered_by)
create_execution(job_id, triggered_by, origin) ==
  Append(executions,
         [ job_id |-> job_id, start_time |-> now, end_time |-> NULL,
           status |-> "running", exit_code |-> NULL, retry_count |-> 0,
           triggered_by |-> triggered_by,
           \* observer field, not a column: the call site that made the call
           origin |-> origin ])

\* the UPDATE keyed by the job of the record instead of by the record's id
update_execution_ByJob(execution_id, end_time, status, exit_code, retry_count) ==
  [e \in 1..Len(executions) |->
     IF executions[e].job_id = executions[execution_id].job_id
       THEN [executions[e] EXCEPT !.end_time = end_time, !.status = status,
                                  !.exit_code = exit_code, !.retry_count = retry_count]
       ELSE executions[e]]

\* UPDATE job_executions SET end_time, status, exit_code, retry_count WHERE id = ?
update_execution(execution_id, end_time, status, exit_code, retry_count) ==
  [executions EXCEPT ![execution_id].end_time = end_time,
                     ![execution_id].status = status,
                     ![execution_id].exit_code = exit_code,
                     ![execution_id].retry_count = retry_count]

\* SELECT status FROM job_executions WHERE job_id = ? ORDER BY start_time DESC LIMIT 1
\* (rows of one job with equal clock readings: the later insert is the later start)
ExecutionsOf(job_id) == {e \in 1..Len(executions) : executions[e].job_id = job_id}

\* the most recent execution taken to be the last one inserted (ORDER BY id)
LatestExecution_LastInserted(job_id) ==
  LET E == ExecutionsOf(job_id)
  IN  IF E = {} THEN 0 ELSE CHOOSE e \in E : \A f \in E : f <= e

LatestExecution(job_id) ==
  LET E == ExecutionsOf(job_id)
  IN  IF E = {} THEN 0
      ELSE CHOOSE e \in E : \A f \in E :
             \/ executions[f].start_time < executions[e].start_time
             \/ executions[f].start_time = executions[e].start_time /\ f <= e

\* the job_dependencies table is a sequence of rows <<job_id, depends_on_job_id>>
DependencyRows(ds, job_id, depends_on_job_id) ==
  {k \in 1..Len(ds) : ds[k] = <<job_id, depends_on_job_id>>}

\* INSERT without the UNIQUE(job_id, depends_on_job_id) constraint
add_job_dependency_NoUnique(ds, job_id, depends_on_job_id) ==
  [deps |-> Append(ds, <<job_id, depends_on_job_id>>), result |-> TRUE]

\* INSERT INTO job_dependencies; the UNIQUE constraint raises IntegrityError,
\* which is caught: what the table holds afterwards, and the value returned
add_job_dependency(ds, job_id, depends_on_job_id) ==
  IF DependencyRows(ds, job_id, depends_on_job_id) # {}
    THEN [deps |-> ds, result |-> FALSE]
    ELSE [deps |-> Append(ds, <<job_id, depends_on_job_id>>), result |-> TRUE]

\* DELETE FROM job_dependencies WHERE job_id = ? AND depends_on_job_id = ?
remove_job_dependency(ds, job_id, depends_on_job_id) ==
  SelectSeq(ds, LAMBDA row : row # <<job_id, depends_on_job_id>>)

\* SELECT depends_on_job_id FROM job_dependencies WHERE job_id = ?
Prerequisites(job_id) == {deps[k][2] : k \in {x \in 1..Len(deps) : deps[x][1] = job_id}}

\* the check taking a prerequisite that has never run as met
check_dependencies_met_NoRecordIsMet(job_id) ==
  IF Prerequisites(job_id) = {} THEN TRUE
  ELSE \A dep_job_id \in Prerequisites(job_id) :
         \/ LatestExecution(dep_job_id) = 0
         \/ executions[LatestExecution(dep_job_id)].status = "completed"

check_dependencies_met(job_id) ==
  IF Prerequisites(job_id) = {} THEN TRUE
  ELSE \A dep_job_id \in Prerequisites(job_id) :
         /\ LatestExecution(dep_job_id) # 0
         /\ executions[LatestExecution(dep_job_id)].status = "completed"

\* the columns of a jobs row the model keeps, with the defaults of the schema
\* ("" for a text column that is NULL)
SchemaDefaults ==
  [NewJob([schedule_type |-> "manual", interval_minutes |-> NULL, cron_expression |-> ""], 0, FALSE)
     EXCEPT !.exists = FALSE]
  @@ [name |-> "", job_type |-> "", command |-> ""]

\* the keys create_job leaves out of its INSERT
SkippedOnCreate == {"id", "created_at", "updated_at"}

\* the INSERT leaving the enabled column to its default as well
InsertedRow_EnabledByDefault(job_data) ==
  [col \in DOMAIN SchemaDefaults |->
     IF col = "exists" THEN TRUE
     ELSE IF col \in DOMAIN job_data \ (SkippedOnCreate \cup {"enabled"}) THEN job_data[col]
     ELSE SchemaDefaults[col]]

\* create_job lines 105-114: INSERT INTO jobs (<keys of job_data but id,
\* created_at, updated_at>) VALUES (...), the other columns at their defaults
InsertedRow(job_data) ==
  [col \in DOMAIN SchemaDefaults |->
     IF col = "exists" THEN TRUE
     ELSE IF col \in DOMAIN job_data \ SkippedOnCreate THEN job_data[col]
     ELSE SchemaDefaults[col]]

\* name TEXT NOT NULL UNIQUE, job_type TEXT NOT NULL, command TEXT NOT NULL:
\* the row would break a constraint (sqlite3.IntegrityError)
BreaksConstraint(js, job_id, row) ==
  \/ row.name = "" \/ row.job_type = "" \/ row.command = ""
  \/ \E j \in DOMAIN js : j # job_id /\ js[j].exists /\ js[j].name = row.name

\* a rowid column without AUTOINCREMENT: one more than the largest id in use
NextId_Rowid(js, seq) ==
  IF \E j \in DOMAIN js : js[j].exists
    THEN (CHOOSE j \in DOMAIN js : js[j].exists /\ \A k \in DOMAIN js : js[k].exists => k <= j) + 1
    ELSE 1

\* id INTEGER PRIMARY KEY AUTOINCREMENT: one more than the largest id ever given
NextId(js, seq) == seq + 1

\* create_job: the store afterwards and cursor.lastrowid, or the exception
create_job(js, seq, job_data) ==
  LET id == NextId(js, seq)
      row == InsertedRow(job_data)
  IN  IF BreaksConstraint(js, id, row)
        THEN [raised |-> TRUE, jobs |-> js, sqlite_sequence |-> seq, id |-> NULL]
        ELSE [raised |-> FALSE, jobs |-> [js EXCEPT ![id] = row],
              sqlite_sequence |-> IF id > seq THEN id ELSE seq, id |-> id]

\* update_job: UPDATE jobs SET <keys of job_data but id, created_at> WHERE id = ?
update_job(js, job_id, job_data) ==
  LET row == [col \in DOMAIN js[job_id] |->
                IF col \in DOMAIN job_data \ {"id", "created_at"}
                  THEN job_data[col] ELSE js[job_id][col]]
  IN  IF ~js[job_id].exists \/ BreaksConstraint(js, job_id, row)
        THEN js ELSE [js EXCEPT ![job_id] = row]

\* the order of the names under ORDER BY name
JobNames == <<"a", "b">>

NameRank(name) == CHOOSE k \in 1..Len(JobNames) : JobNames[k] = name

\* dict(row): the columns and the id
FullRow(job_id) ==
  [col \in (DOMAIN jobs[job_id] \ {"exists"}) \cup {"id"} |->
     IF col = "id" THEN job_id ELSE jobs[job_id][col]]

\* SELECT * FROM jobs ORDER BY name
RECURSIVE FullRowsFrom(_)
FullRowsFrom(S) ==
  IF S = {} THEN <<>>
  ELSE LET m == CHOOSE x \in S : \A y \in S : NameRank(jobs[x].name) <= NameRank(jobs[y].name)
       IN  <<FullRow(m)>> \o FullRowsFrom(S \ {m})

get_all_jobs == FullRowsFrom({j \in DOMAIN jobs : jobs[j].exists})

\* how sqlite3 hands the columns over: TEXT as str or None, INTEGER and BOOLEAN
\* as int or None
TextColumns == {"name", "job_type", "command", "schedule_type", "cron_expression", "status"}
FlagColumns == {"enabled", "notify_on_success", "notify_on_failure"}

\* json.dump of one value: null, a number or a string
\* (notification_email is kept as there being an address or none)
JsonValue(col, v) ==
  IF col \in TextColumns
    THEN IF v = "" THEN [type |-> "null"] ELSE [type |-> "string", text |-> v]
  ELSE IF col \in FlagColumns
    THEN [type |-> "number", number |-> IF v THEN 1 ELSE 0]
  ELSE IF col = "notification_email"
    THEN IF v THEN [type |-> "string", text |-> "address"] ELSE [type |-> "null"]
  ELSE IF v = NULL THEN [type |-> "null"] ELSE [type |-> "number", number |-> v]

\* json.load of one value into the column's representation
PythonValue(col, x) ==
  IF col \in TextColumns
    THEN IF x.type = "null" THEN "" ELSE x.text
  ELSE IF col \in FlagColumns
    THEN x.number # 0
  ELSE IF col = "notification_email"
    THEN x.type # "null"
  ELSE IF x.type = "null" THEN NULL ELSE x.number

json_dump(records) ==
  [k \in 1..Len(records) |-> [col \in DOMAIN records[k] |-> JsonValue(col, records[k][col])]]

json_load(text) ==
  [k \in 1..Len(text) |-> [col \in DOMAIN text[k] |-> PythonValue(col, text[k][col])]]

\* import_jobs lines 605-609: for job_data in jobs_data: pop id, create_job;
\* the first exception ends the loop, the jobs created before it stay
RECURSIVE import_jobs(_, _, _)
import_jobs(js, seq, jobs_data) ==
  IF jobs_data = <<>> THEN [jobs |-> js, sqlite_sequence |-> seq]
  ELSE LET job_data == [col \in DOMAIN Head(jobs_data) \ {"id"} |-> Head(jobs_data)[col]]
           r == create_job(js, seq, job_data)
       IN  IF r.raised THEN [jobs |-> js, sqlite_sequence |-> seq]
           ELSE import_jobs(r.jobs, r.sqlite_sequence, Tail(jobs_data))

(* ------------------------------ due-ness ------------------------------ *)
\* Python truthiness of an integer column: None and 0 are false
Truthy(x) == x # NULL /\ x # 0

\* croniter(expr, base) raises on text it cannot parse
CronValid(expr) == expr = CronEveryMinute

\* seconds between two occurrences of a parsed expression
CronPeriod(expr) == SecondsPerMinute

\* croniter(expr, base).get_next(datetime): the first occurrence strictly after base
croniter_get_next(expr, base) ==
  ((base \div CronPeriod(expr)) + 1) * CronPeriod(expr)

\* lines 55-69: the interval branch; t is datetime.now() at line 62
IntervalDue(job, t) ==
  IF job.last_run = NULL THEN TRUE
  ELSE t >= job.last_run + job.interval_minutes * SecondsPerMinute

\* the cron branch with the debounce written >= 60
CronDue_DebounceInclusive(job, t1, t2) ==
  IF ~CronValid(job.cron_expression) THEN FALSE
  ELSE IF job.last_run = NULL THEN TRUE
  ELSE /\ croniter_get_next(job.cron_expression, t1) <= t2
       /\ (t2 - job.last_run) >= DebounceSeconds

\* lines 73-90: the cron branch; t1 is datetime.now() at line 74, t2 at line 83
CronDue(job, t1, t2) ==
  IF ~CronValid(job.cron_expression) THEN FALSE
  ELSE IF job.last_run = NULL THEN TRUE
  ELSE /\ croniter_get_next(job.cron_expression, t1) <= t2
       /\ (t2 - job.last_run) > DebounceSeconds

\* should_run with the manual kind taken for due on its first evaluation
ShouldRun_ManualDue(job, t1, t2) ==
  IF job.schedule_type = "interval" /\ Truthy(job.interval_minutes)
    THEN IntervalDue(job, t1)
  ELSE IF job.schedule_type = "cron" /\ job.cron_expression # ""
    THEN CronDue(job, t1, t2)
  ELSE job.schedule_type = "manual" /\ job.last_run = NULL

\* lines 51-90: should_run for one fetched row
ShouldRun(job, t1, t2) ==
  IF job.schedule_type = "interval" /\ Truthy(job.interval_minutes)
    THEN IntervalDue(job, t1)
  ELSE IF job.schedule_type = "cron" /\ job.cron_expression # ""
    THEN CronDue(job, t1, t2)
  ELSE FALSE

\* lines 64-67 and 86-88: the next_run the cycle stores, NULL when it stores none
NextRunWrite(job, t1, t2) ==
  IF job.schedule_type = "interval" /\ Truthy(job.interval_minutes)
    THEN IF ~IntervalDue(job, t1) /\ job.next_run = NULL
           THEN job.last_run + job.interval_minutes * SecondsPerMinute
           ELSE NULL
  ELSE IF job.schedule_type = "cron" /\ job.cron_expression # ""
    THEN IF CronValid(job.cron_expression) /\ ~CronDue(job, t1, t2)
           THEN croniter_get_next(job.cron_expression, t1)
           ELSE NULL
  ELSE NULL

\* how far the clock can move between the reads at line 74 and line 83
ClockDelays(job) ==
  IF job.schedule_type = "cron" /\ job.cron_expression # ""
       /\ CronValid(job.cron_expression) /\ job.last_run # NULL
    THEN {0, TickStep} ELSE {0}

(* --------------------------- scheduler loop --------------------------- *)
\* the loop after the body of `for job in jobs` ended for row i at time t:
\* the next row, or time.sleep(30) and the next `while self.running` test
EndOfJob(l, t) ==
  IF l.i < Len(l.jobs)
    THEN [l EXCEPT !.pc = "eval", !.i = l.i + 1]
    ELSE [pc |-> "fetch", jobs |-> <<>>, i |-> 0, wake |-> t + PollPeriod]

\* line 40: while self.running  (the only place the loop reads the flag)
\* line 43: jobs = self.job_manager.get_enabled_jobs()
LoopFetch ==
  /\ loop.pc = "fetch"
  /\ now >= loop.wake
  /\ loop' = IF ~engine.running
               THEN [loop EXCEPT !.pc = "exited"]
             ELSE IF get_enabled_jobs = <<>>
               THEN [loop EXCEPT !.wake = now + PollPeriod]
               ELSE [pc |-> "eval", jobs |-> get_enabled_jobs, i |-> 1, wake |-> loop.wake]
  /\ UNCHANGED <<now, jobs, deps, executions, running_jobs, calls, call_budget, fault_budget>>
  /\ UNCHANGED others

\* lines 47-48: `if job['id'] in self.running_jobs: continue` (no lock taken)
InRunningJobs(job_id) == job_id \in running_jobs

\* the row evaluation with the croniter error left to the handler of the
\* whole cycle (line 105): the rest of the fetched list is not looked at
LoopEval_CronErrorEndsCycle ==
  /\ loop.pc = "eval"
  /\ LET job == loop.jobs[loop.i] IN
     \/ /\ InRunningJobs(job.id)
        /\ loop' = EndOfJob(loop, now)
        /\ UNCHANGED <<now, jobs>>
     \/ /\ ~InRunningJobs(job.id)
        /\ \E d \in ClockDelays(job) :
             /\ now + d <= MaxTime
             /\ now' = now + d
             /\ jobs' = IF NextRunWrite(job, now, now + d) # NULL
                          THEN update_job_next_run(jobs, job.id, NextRunWrite(job, now, now + d))
                          ELSE jobs
             /\ loop' = IF ShouldRun(job, now, now + d)
                          THEN [loop EXCEPT !.pc = "deps"]
                        ELSE IF job.schedule_type = "cron" /\ job.cron_expression # ""
                                  /\ ~CronValid(job.cron_expression)
                          THEN [pc |-> "fetch", jobs |-> <<>>, i |-> 0, wake |-> now + d + PollPeriod]
                          ELSE EndOfJob(loop, now + d)
  /\ UNCHANGED <<deps, executions, running_jobs, calls, call_budget, fault_budget>>
  /\ UNCHANGED others

\* lines 45-92: one row of the fetched list, up to `if should_run`
LoopEval ==
  /\ loop.pc = "eval"
  /\ LET job == loop.jobs[loop.i] IN
     \/ /\ InRunningJobs(job.id)
        /\ loop' = EndOfJob(loop, now)
        /\ UNCHANGED <<now, jobs>>
     \/ /\ ~InRunningJobs(job.id)
        /\ \E d \in ClockDelays(job) :
             /\ now + d <= MaxTime
             /\ now' = now + d
             /\ jobs' = IF NextRunWrite(job, now, now + d) # NULL
                          THEN update_job_next_run(jobs, job.id, NextRunWrite(job, now, now + d))
                          ELSE jobs
             /\ loop' = IF ShouldRun(job, now, now + d)
                          THEN [loop EXCEPT !.pc = "deps"]
                          ELSE EndOfJob(loop, now + d)
  /\ UNCHANGED <<deps, executions, running_jobs, calls, call_budget, fault_budget>>
  /\ UNCHANGED others

\* line 94: if self.job_manager.check_dependencies_met(job['id'])
LoopDeps ==
  /\ loop.pc = "deps"
  /\ loop' = IF check_dependencies_met(loop.jobs[loop.i].id)
               THEN [loop EXCEPT !.pc = "spawn"]
               ELSE EndOfJob(loop, now)
  /\ UNCHANGED <<now, jobs, deps, executions, running_jobs, calls, call_budget, fault_budget>>
  /\ UNCHANGED others

(* ----------------------------- execute_job ---------------------------- *)
\* def execute_job(self, job_id, triggered_by='scheduler')
DefaultTriggeredBy == "scheduler"

NoJob == [NewJob(CHOOSE s \in Schedules : s.schedule_type = "manual", 0, FALSE)
            EXCEPT !.exists = FALSE]

\* a thread started on execute_job; origin is the call site (observer field)
NewCall(job_id, triggered_by, origin) ==
  [ job_id |-> job_id, triggered_by |-> triggered_by, origin |-> origin,
    pc |-> "entry", inserted |-> FALSE, execution_id |-> 0, job |-> NoJob,
    retry_count |-> 0, success |-> FALSE, exit_code |-> NULL,
    callbacks |-> <<>>, notified |-> 0,
    \* error_output, as far as it starts with the timeout marker or not
    error_output |-> "",
    \* observer fields, not locals: the exit code each attempt ended with, how
    \* many attempts ran into the timeout, how often time.sleep(delay) was called
    attempts |-> <<>>, timeouts |-> 0, sleeps |-> 0 ]

\* a thread whose execute_job call has returned: its locals are gone
Returned == [NewCall(0, "", "") EXCEPT !.pc = "done"]

\* lines 96-101: threading.Thread(target=self.execute_job, args=(job['id'],)).start()
LoopSpawn ==
  /\ loop.pc = "spawn"
  /\ call_budget > 0
  /\ call_budget' = call_budget - 1
  /\ calls' = Append(calls, NewCall(loop.jobs[loop.i].id, DefaultTriggeredBy, "scheduler"))
  /\ loop' = EndOfJob(loop, now)
  /\ UNCHANGED <<now, jobs, deps, executions, running_jobs, fault_budget>>
  /\ UNCHANGED others

\* etl_scheduler.py run_job_now: get_job, then Thread(target=execute_job, args=(job_id,))
RunJobNow(job_id) ==
  /\ get_job(job_id).exists
  /\ call_budget > 0
  /\ call_budget' = call_budget - 1
  /\ calls' = Append(calls, NewCall(job_id, DefaultTriggeredBy, "manual"))
  /\ UNCHANGED <<now, jobs, deps, executions, running_jobs, loop, fault_budget>>
  /\ UNCHANGED others

\* an exception out of a store call, the notifier or the status callback;
\* fault_budget is how many are still to come
\* (call_budget likewise: the threads still to be started)
Raise(c) ==
  /\ fault_budget > 0
  /\ fault_budget' = fault_budget - 1
  /\ calls' = [calls EXCEPT ![c].pc = "finally"]
  /\ UNCHANGED call_budget

\* the early return leaving through the finally clause
EntryBlocked_Pops(c) ==
  /\ calls' = [calls EXCEPT ![c] = Returned]
  /\ running_jobs' = running_jobs \ {calls[c].job_id}
  /\ UNCHANGED <<now, jobs, deps, executions, loop, call_budget, fault_budget>>

\* lines 113-117, registry already holds the id: print and return
EntryBlocked(c) ==
  /\ calls' = [calls EXCEPT ![c] = Returned]
  /\ UNCHANGED <<now, jobs, deps, executions, running_jobs, loop, call_budget, fault_budget>>

\* lines 113-117, registry does not hold the id: insert it
EntryInsert(c) ==
  /\ running_jobs' = running_jobs \cup {calls[c].job_id}
  /\ calls' = [calls EXCEPT ![c].pc = "load", ![c].inserted = TRUE]
  /\ UNCHANGED <<now, jobs, deps, executions, loop, call_budget, fault_budget>>

\* the insert without the membership test
Entry_NoCheck(c) ==
  /\ calls[c].pc = "entry"
  /\ EntryInsert(c)
  /\ UNCHANGED others

\* lines 113-117: with self.lock: check and insert
Entry(c) ==
  /\ calls[c].pc = "entry"
  /\ IF calls[c].job_id \in running_jobs THEN EntryBlocked(c) ELSE EntryInsert(c)
  /\ UNCHANGED others

\* execute_job checking the dependencies itself before it runs the job
Load_ChecksDeps(c) ==
  /\ calls[c].pc = "load"
  /\ calls' = IF get_job(calls[c].job_id).exists /\ check_dependencies_met(calls[c].job_id)
                THEN [calls EXCEPT ![c].pc = "create", ![c].job = get_job(calls[c].job_id)]
                ELSE [calls EXCEPT ![c].pc = "finally"]
  /\ UNCHANGED <<now, jobs, deps, executions, running_jobs, loop, call_budget, fault_budget>>
  /\ UNCHANGED others

\* execute_job going on with whatever get_job returned
Load_AnyRow(c) ==
  /\ calls[c].pc = "load"
  /\ calls' = [calls EXCEPT ![c].pc = "create", ![c].job = get_job(calls[c].job_id)]
  /\ UNCHANGED <<now, jobs, deps, executions, running_jobs, loop, call_budget, fault_budget>>
  /\ UNCHANGED others

\* lines 120-122: job = get_job(job_id); if not job: return
Load(c) ==
  /\ calls[c].pc = "load"
  /\ calls' = IF get_job(calls[c].job_id).exists
                THEN [calls EXCEPT ![c].pc = "create", ![c].job = get_job(calls[c].job_id)]
                ELSE [calls EXCEPT ![c].pc = "finally"]
  /\ UNCHANGED <<now, jobs, deps, executions, running_jobs, loop, call_budget, fault_budget>>
  /\ UNCHANGED others

\* line 125: execution_id = create_execution(job_id, triggered_by)
CreateExecution(c) ==
  /\ calls[c].pc = "create"
  /\ \/ /\ executions' = create_execution(calls[c].job_id, calls[c].triggered_by, calls[c].origin)
        /\ calls' = [calls EXCEPT ![c].pc = "status_running",
                                  ![c].execution_id = Len(executions) + 1]
        /\ UNCHANGED <<call_budget, fault_budget>>
     \/ /\ Raise(c)
        /\ UNCHANGED executions
  /\ UNCHANGED <<now, jobs, deps, running_jobs, loop>>
  /\ UNCHANGED others

\* line 128: update_job_status(job_id, 'status', 'running')
StatusRunning(c) ==
  /\ calls[c].pc = "status_running"
  /\ \/ /\ jobs' = update_job_status(jobs, calls[c].job_id, "running")
        /\ calls' = [calls EXCEPT ![c].pc = "last_run"]
        /\ UNCHANGED <<call_budget, fault_budget>>
     \/ /\ Raise(c)
        /\ UNCHANGED jobs
  /\ UNCHANGED <<now, deps, executions, running_jobs, loop>>
  /\ UNCHANGED others

\* the start of a run without the status callback
LastRun_NoCallback(c) ==
  /\ calls[c].pc = "last_run"
  /\ jobs' = update_job_last_run(jobs, calls[c].job_id, now)
  /\ calls' = [calls EXCEPT ![c].pc = "attempt"]
  /\ UNCHANGED <<now, deps, executions, running_jobs, loop, call_budget, fault_budget>>
  /\ UNCHANGED others

\* lines 129-133: update_job_last_run(job_id), then status_callback(job_id, 'running')
LastRun(c) ==
  /\ calls[c].pc = "last_run"
  /\ \/ /\ jobs' = update_job_last_run(jobs, calls[c].job_id, now)
        /\ calls' = [calls EXCEPT ![c].pc = "attempt",
                                  ![c].callbacks = Append(@, "running")]
        /\ UNCHANGED <<call_budget, fault_budget>>
     \/ /\ jobs' = update_job_last_run(jobs, calls[c].job_id, now)
        /\ Raise(c)
     \/ /\ Raise(c)
        /\ UNCHANGED jobs
  /\ UNCHANGED <<now, deps, executions, running_jobs, loop>>
  /\ UNCHANGED others

\* what one run of the job body gives: exit code 0, another exit code, the
\* child still running when timeout_seconds have passed, or an exception out
\* of Popen
Outcomes == {"exit0", "nonzero", "timeout", "raise"}

\* f"Process timed out after {timeout} seconds\n" at the head of error_output
TimeoutMarker == "Process timed out"

\* communicate(timeout=timeout) returning whatever exit code the child has
\* when the timeout expires
Execute_TimeoutUnmarked(job, outcome) ==
  [ error_output |-> "", exit_code |-> IF outcome \in {"exit0", "timeout"} THEN 0 ELSE 1 ]

\* _execute_python / _execute_shell, lines 236-243 and 272-279: the child's
\* exit code and stderr, or on TimeoutExpired kill, the marker and 1
\* (lines 165-168 for an exception: "Execution error: ..." and 1)
Execute(job, outcome) ==
  IF outcome = "timeout"
    THEN [ error_output |-> TimeoutMarker, exit_code |-> 1 ]
    ELSE [ error_output |-> "", exit_code |-> IF outcome = "exit0" THEN 0 ELSE 1 ]

\* lines 150-168: the job body run once, what the locals hold afterwards
AttemptResult(call, outcome) ==
  LET x == Execute(call.job, outcome)
      t == IF outcome = "timeout" THEN call.timeouts + 1 ELSE call.timeouts
      \* lines 145-148: if retry_count > 0: time.sleep(delay)
      z == IF call.retry_count > 0 THEN call.sleeps + 1 ELSE call.sleeps
  IN  IF x.exit_code = 0
        THEN [call EXCEPT !.success = TRUE, !.exit_code = 0,
                          !.error_output = x.error_output,
                          !.attempts = Append(@, 0), !.timeouts = t, !.sleeps = z]
        ELSE [call EXCEPT !.retry_count = @ + 1, !.exit_code = x.exit_code,
                          !.error_output = x.error_output,
                          !.attempts = Append(@, 1), !.timeouts = t, !.sleeps = z]

\* one pass of the retry loop with the ceiling written retry_count < max_retries
AfterAttempt_ExclusiveCeiling(call, outcome) ==
  LET r == AttemptResult(call, outcome)
  IN  IF r.retry_count < r.job.max_retries /\ ~r.success
        THEN r ELSE [r EXCEPT !.pc = "finalize"]

\* one pass of the retry loop with the condition written retry_count <= max_retries
AfterAttempt_IgnoresSuccess(call, outcome) ==
  LET r == AttemptResult(call, outcome)
  IN  IF r.retry_count <= r.job.max_retries
        THEN r ELSE [r EXCEPT !.pc = "finalize"]

\* lines 143-169: one pass of `while retry_count <= max_retries and not success`
AfterAttempt(call, outcome) ==
  LET r == AttemptResult(call, outcome)
  IN  IF r.retry_count <= r.job.max_retries /\ ~r.success
        THEN r ELSE [r EXCEPT !.pc = "finalize"]

\* the timeout can only expire for a job that has one (timeout = None waits)
CanHappen(call, outcome) == outcome = "timeout" => call.job.timeout_seconds # NULL

\* the retry loop giving up as soon as the engine is stopped
Attempt_UntilStopped(c) ==
  /\ calls[c].pc = "attempt"
  /\ IF engine.running
       THEN \E outcome \in Outcomes :
              /\ CanHappen(calls[c], outcome)
              /\ calls' = [calls EXCEPT ![c] = AfterAttempt(calls[c], outcome)]
       ELSE calls' = [calls EXCEPT ![c].pc = "finally"]
  /\ UNCHANGED <<now, jobs, deps, executions, running_jobs, loop, call_budget, fault_budget>>
  /\ UNCHANGED others

Attempt(c) ==
  /\ calls[c].pc = "attempt"
  /\ \E outcome \in Outcomes :
       /\ CanHappen(calls[c], outcome)
       /\ calls' = [calls EXCEPT ![c] = AfterAttempt(calls[c], outcome)]
  /\ UNCHANGED <<now, jobs, deps, executions, running_jobs, loop, call_budget, fault_budget>>
  /\ UNCHANGED others

\* the final status taken from the first attempt alone
FinalStatus_FirstAttempt(call) ==
  IF call.success /\ call.retry_count = 0 THEN "completed" ELSE "failed"

\* line 173
FinalStatus(call) == IF call.success THEN "completed" ELSE "failed"

\* line 182
StoredRetryCount(call) == IF call.retry_count > 0 THEN call.retry_count - 1 ELSE 0

\* lines 172-183: update_execution(execution_id, end_time=..., status=..., ...)
Finalize(c) ==
  /\ calls[c].pc = "finalize"
  /\ \/ /\ executions' = update_execution(calls[c].execution_id, now, FinalStatus(calls[c]),
                                          calls[c].exit_code, StoredRetryCount(calls[c]))
        /\ calls' = [calls EXCEPT ![c].pc = "status_final"]
        /\ UNCHANGED <<call_budget, fault_budget>>
     \/ /\ Raise(c)
        /\ UNCHANGED executions
  /\ UNCHANGED <<now, jobs, deps, running_jobs, loop>>
  /\ UNCHANGED others

\* the notifier called for every outcome once a target is configured
ShouldNotify_AnyOutcome(call) == call.job.notification_email

\* lines 189-191
ShouldNotify(call) ==
  /\ call.job.notification_email
  /\ \/ call.success /\ call.job.notify_on_success
     \/ ~call.success /\ call.job.notify_on_failure

\* lines 186-200: update_job_status(job_id, 'status', status), the notifier,
\* then status_callback(job_id, status, combined_output)
StatusFinal(c) ==
  /\ calls[c].pc = "status_final"
  /\ \/ /\ jobs' = update_job_status(jobs, calls[c].job_id, FinalStatus(calls[c]))
        /\ calls' = [calls EXCEPT ![c].pc = "finally",
                                  ![c].notified = IF ShouldNotify(calls[c]) THEN @ + 1 ELSE @,
                                  ![c].callbacks = Append(@, FinalStatus(calls[c]))]
        /\ UNCHANGED <<call_budget, fault_budget>>
     \/ /\ jobs' = update_job_status(jobs, calls[c].job_id, FinalStatus(calls[c]))
        /\ fault_budget > 0
        /\ fault_budget' = fault_budget - 1
        /\ UNCHANGED call_budget
        /\ \E notifier_raised \in {b \in BOOLEAN : b => ShouldNotify(calls[c])} :
             calls' = [calls EXCEPT ![c].pc = "finally",
                                    ![c].notified = IF ShouldNotify(calls[c]) /\ ~notifier_raised
                                                      THEN @ + 1 ELSE @]
     \/ /\ Raise(c)
        /\ UNCHANGED jobs
  /\ UNCHANGED <<now, deps, executions, running_jobs, loop>>
  /\ UNCHANGED others

\* lines 186-200 step by step, with a store, notifier and callback that raise
\* nothing. The status callback made before the job's status is written
StatusFinalUpdate_Deferred(c) ==
  /\ calls[c].pc = "status_final"
  /\ calls' = [calls EXCEPT ![c].pc = "notify"]
  /\ UNCHANGED <<now, jobs, deps, executions, running_jobs, loop, call_budget, fault_budget>>
  /\ UNCHANGED others

\* line 186: update_job_status(job_id, 'status', status)
StatusFinalUpdate(c) ==
  /\ calls[c].pc = "status_final"
  /\ jobs' = update_job_status(jobs, calls[c].job_id, FinalStatus(calls[c]))
  /\ calls' = [calls EXCEPT ![c].pc = "notify"]
  /\ UNCHANGED <<now, deps, executions, running_jobs, loop, call_budget, fault_budget>>
  /\ UNCHANGED others

\* lines 188-193: the notifier, under the job's notification flags
Notify(c) ==
  /\ calls[c].pc = "notify"
  /\ calls' = [calls EXCEPT ![c].pc = "callback",
                            ![c].notified = IF ShouldNotify(calls[c]) THEN @ + 1 ELSE @]
  /\ UNCHANGED <<now, jobs, deps, executions, running_jobs, loop, call_budget, fault_budget>>
  /\ UNCHANGED others

\* lines 195-200: status_callback(job_id, status, combined_output)
CompletionCallback(c) ==
  /\ calls[c].pc = "callback"
  /\ calls' = [calls EXCEPT ![c].pc = "finally",
                            ![c].callbacks = Append(@, FinalStatus(calls[c]))]
  /\ UNCHANGED <<now, jobs, deps, executions, running_jobs, loop, call_budget, fault_budget>>
  /\ UNCHANGED others

\* the pop at the end of the try block instead of in finally
Release_NormalPathOnly(c) ==
  /\ running_jobs' = IF Len(calls[c].callbacks) = 2
                       THEN running_jobs \ {calls[c].job_id} ELSE running_jobs
  /\ calls' = [calls EXCEPT ![c] = Returned]

\* lines 204-206: finally: with self.lock: self.running_jobs.pop(job_id, None)
Release(c) ==
  /\ running_jobs' = running_jobs \ {calls[c].job_id}
  /\ calls' = [calls EXCEPT ![c] = Returned]

\* an exception that reached the finally clause taking the scheduler loop down
Finally_FailureEndsLoop(c) ==
  /\ calls[c].pc = "finally"
  /\ Release(c)
  /\ loop' = IF Len(calls[c].callbacks) < 2 THEN [loop EXCEPT !.pc = "exited"] ELSE loop
  /\ UNCHANGED <<now, jobs, deps, executions, call_budget, fault_budget>>
  /\ UNCHANGED others

Finally(c) ==
  /\ calls[c].pc = "finally"
  /\ Release(c)
  /\ UNCHANGED <<now, jobs, deps, executions, loop, call_budget, fault_budget>>
  /\ UNCHANGED others

\* lines 113-117 step by step: `with self.lock:` entered
EntryAcquire(c) ==
  /\ calls[c].pc = "entry"
  /\ engine.lock = 0
  /\ engine' = [engine EXCEPT !.lock = c]
  /\ calls' = [calls EXCEPT ![c].pc = "entry_locked"]
  /\ UNCHANGED <<now, jobs, deps, executions, running_jobs, loop, call_budget, fault_budget>>
  /\ UNCHANGED <<sqlite_sequence, given, file, dialog>>

\* lines 114-117: the check and the insert, then the lock released
EntryLocked(c) ==
  /\ calls[c].pc = "entry_locked"
  /\ IF calls[c].job_id \in running_jobs THEN EntryBlocked(c) ELSE EntryInsert(c)
  /\ engine' = [engine EXCEPT !.lock = 0]
  /\ UNCHANGED <<sqlite_sequence, given, file, dialog>>

\* lines 204-206 step by step: `with self.lock:` entered
FinallyAcquire(c) ==
  /\ calls[c].pc = "finally"
  /\ engine.lock = 0
  /\ engine' = [engine EXCEPT !.lock = c]
  /\ calls' = [calls EXCEPT ![c].pc = "finally_locked"]
  /\ UNCHANGED <<now, jobs, deps, executions, running_jobs, loop, call_budget, fault_budget>>
  /\ UNCHANGED <<sqlite_sequence, given, file, dialog>>

\* line 206: the pop, then the lock released
FinallyLocked(c) ==
  /\ calls[c].pc = "finally_locked"
  /\ Release(c)
  /\ engine' = [engine EXCEPT !.lock = 0]
  /\ UNCHANGED <<now, jobs, deps, executions, loop, call_budget, fault_budget>>
  /\ UNCHANGED <<sqlite_sequence, given, file, dialog>>

(* ------------------------------- the UI ------------------------------- *)
\* etl_scheduler.py delete_job -> JobManager.delete_job: DELETE FROM jobs WHERE id = ?
\* (get_connection never issues PRAGMA foreign_keys = ON)
delete_job(job_id) == [jobs EXCEPT ![job_id].exists = FALSE]

DeleteJob(job_id) ==
  /\ get_job(job_id).exists
  /\ jobs' = delete_job(job_id)
  /\ UNCHANGED <<now, deps, executions, running_jobs, calls, loop, call_budget, fault_budget>>
  /\ UNCHANGED others

\* etl_scheduler.py enable_job / disable_job: update_job_status(job_id, "enabled", ...)
SetEnabled(job_id, value) ==
  /\ jobs[job_id].exists
  /\ jobs[job_id].enabled # value
  /\ jobs' = [jobs EXCEPT ![job_id].enabled = value]
  /\ UNCHANGED <<now, deps, executions, running_jobs, calls, loop, call_budget, fault_budget>>
  /\ UNCHANGED others

\* job_dialog.py save: add_job_dependency(job_id, dep_id) for a job selected in
\* the list of the other jobs
AddDependency(job_id, depends_on_job_id) ==
  /\ job_id # depends_on_job_id
  /\ get_job(job_id).exists /\ get_job(depends_on_job_id).exists
  /\ deps' = add_job_dependency(deps, job_id, depends_on_job_id).deps
  /\ UNCHANGED <<now, jobs, executions, running_jobs, calls, loop, call_budget, fault_budget>>
  /\ UNCHANGED others

\* job_dialog.py save: remove_job_dependency(job_id, dep_id) for a stored edge
RemoveDependency(job_id, depends_on_job_id) ==
  /\ DependencyRows(deps, job_id, depends_on_job_id) # {}
  /\ deps' = remove_job_dependency(deps, job_id, depends_on_job_id)
  /\ UNCHANGED <<now, jobs, executions, running_jobs, calls, loop, call_budget, fault_budget>>
  /\ UNCHANGED others

\* the wall clock
Tick ==
  /\ now + TickStep <= MaxTime
  /\ now' = now + TickStep
  /\ UNCHANGED <<jobs, deps, executions, running_jobs, calls, loop, call_budget, fault_budget>>
  /\ UNCHANGED others

\* a creator of a job holding the values it passed, or nothing
Holding(job_data) == [exists |-> TRUE, job_data |-> job_data]

\* job_dialog.py save / test_installation.py test_database: create_job(job_data)
\* (the jobs table of the model has room for the ids of JobIds)
CreateJob(job_data) ==
  /\ NextId(jobs, sqlite_sequence) \in JobIds
  /\ LET r == create_job(jobs, sqlite_sequence, job_data)
     IN  /\ ~r.raised
         /\ jobs' = r.jobs
         /\ sqlite_sequence' = r.sqlite_sequence
         /\ given' = [given EXCEPT ![r.id] = Holding(job_data)]
  /\ UNCHANGED <<now, deps, executions, running_jobs, calls, loop, call_budget, fault_budget>>
  /\ UNCHANGED <<engine, file, dialog>>

\* job_dialog.py save of an edited job: update_job(job_id, job_data); what the
\* creator passed is no longer what the job should hold
UpdateJob(job_id, job_data) ==
  /\ get_job(job_id).exists
  /\ jobs' = update_job(jobs, job_id, job_data)
  /\ jobs' # jobs
  /\ given' = [given EXCEPT ![job_id] = NoJob]
  /\ UNCHANGED <<now, deps, executions, running_jobs, calls, loop, call_budget, fault_budget>>
  /\ UNCHANGED <<engine, sqlite_sequence, file, dialog>>

\* etl_scheduler.py export_jobs: json.dump(get_all_jobs(), f)
ExportJobs ==
  /\ file' = json_dump(get_all_jobs)
  /\ file' # file
  /\ UNCHANGED <<now, jobs, deps, executions, running_jobs, calls, loop, call_budget, fault_budget>>
  /\ UNCHANGED <<engine, sqlite_sequence, given, dialog>>

\* JobManager(db_path) on a path that has no database yet: empty tables
NewDatabase ==
  /\ \E j \in JobIds : jobs[j].exists
  /\ jobs' = [j \in JobIds |-> NoJob]
  /\ sqlite_sequence' = 0
  /\ given' = [j \in JobIds |-> NoJob]
  /\ UNCHANGED <<now, deps, executions, running_jobs, calls, loop, call_budget, fault_budget>>
  /\ UNCHANGED <<engine, file, dialog>>

\* etl_scheduler.py import_jobs: json.load(f), then create_job for each record
ImportJobs ==
  /\ file # <<>>
  /\ sqlite_sequence + Len(file) <= Cardinality(JobIds)
  /\ LET r == import_jobs(jobs, sqlite_sequence, json_load(file))
     IN  /\ jobs' = r.jobs
         /\ sqlite_sequence' = r.sqlite_sequence
  /\ jobs' # jobs
  /\ UNCHANGED <<now, deps, executions, running_jobs, calls, loop, call_budget, fault_budget>>
  /\ UNCHANGED <<engine, given, file, dialog>>

\* scheduler_engine.py stop, line 34: self.running = False
\* (etl_scheduler.py on_closing is its caller)
StopCall ==
  /\ engine.stop = "idle"
  /\ engine' = [engine EXCEPT !.running = FALSE, !.stop = "join"]
  /\ UNCHANGED <<now, jobs, deps, executions, running_jobs, calls, loop, call_budget, fault_budget>>
  /\ UNCHANGED <<sqlite_sequence, given, file, dialog>>

\* lines 35-36: self.scheduler_thread.join(timeout=2) returns when the loop
\* thread has ended, or after two seconds whatever the loop is doing
StopJoin ==
  /\ engine.stop = "join"
  /\ engine' = [engine EXCEPT !.stop = "returned"]
  /\ UNCHANGED <<now, jobs, deps, executions, running_jobs, calls, loop, call_budget, fault_budget>>
  /\ UNCHANGED <<sqlite_sequence, given, file, dialog>>

\* scheduler_engine.py start, lines 26-30, called on an engine that has been
\* started before: self.running = True, and self.scheduler_thread is replaced
\* by a new thread on _scheduler_loop. engine.old is the thread it replaces:
\* asleep in time.sleep(30) (or about to test the flag), inside a poll cycle,
\* or ended
StartCall ==
  /\ engine.old = "none"
  /\ engine.stop \in {"idle", "returned"}
  /\ engine' = [engine EXCEPT !.running = TRUE, !.stop = "idle",
                              !.old = IF loop.pc = "exited" THEN "exited"
                                      ELSE IF loop.pc = "fetch" THEN "asleep"
                                      ELSE "polling"]
  /\ loop' = [pc |-> "fetch", jobs |-> <<>>, i |-> 0, wake |-> now]
  /\ UNCHANGED <<now, jobs, deps, executions, running_jobs, calls, call_budget, fault_budget>>
  /\ UNCHANGED <<sqlite_sequence, given, file, dialog>>

\* lines 109 and 40 in the replaced thread: time.sleep(30) returns and
\* `while self.running` is tested
OldLoopWakes ==
  /\ engine.old = "asleep"
  /\ engine' = [engine EXCEPT !.old = IF engine.running THEN "polling" ELSE "exited"]
  /\ UNCHANGED <<now, jobs, deps, executions, running_jobs, calls, loop, call_budget, fault_budget>>
  /\ UNCHANGED <<sqlite_sequence, given, file, dialog>>

\* lines 41-109 in the replaced thread, a poll cycle taken in one step: the
\* enabled rows it finds due, not in the registry and with their dependencies
\* met get a thread each, then it sleeps
OldLoopCycle ==
  /\ engine.old = "polling"
  /\ LET due == {j \in JobIds :
                   /\ jobs[j].exists /\ jobs[j].enabled
                   /\ ~InRunningJobs(j)
                   /\ ShouldRun(JobRow(j), now, now)
                   /\ check_dependencies_met(j)}
     IN  /\ Cardinality(due) <= call_budget
         /\ call_budget' = call_budget - Cardinality(due)
         /\ calls' = calls \o [k \in 1..Cardinality(due) |->
                                 NewCall(RowsFrom(due)[k].id, DefaultTriggeredBy, "scheduler")]
  /\ engine' = [engine EXCEPT !.old = "asleep"]
  /\ UNCHANGED <<now, jobs, deps, executions, running_jobs, loop, fault_budget>>
  /\ UNCHANGED <<sqlite_sequence, given, file, dialog>>

\* no job dialog open
NoDialog == [pc |-> "closed", job_id |-> 0, existing |-> <<>>, selected |-> <<>>]

\* SELECT ... FROM job_dependencies WHERE job_id = ?: the rows of one job
get_job_dependencies(ds, job_id) == SelectSeq(ds, LAMBDA row : row[1] = job_id)

\* the listbox selection of the dialog of a job: the prerequisites it has
Selection(job_id) ==
  [k \in 1..Len(get_job_dependencies(deps, job_id)) |->
     get_job_dependencies(deps, job_id)[k][2]]

\* job_dialog.py save, lines 366-394, on the dialog of an existing job: the
\* form is valid, the listbox selection is taken as it stands and update_job
\* writes the form back (an edit that leaves the columns the engine reads as
\* they are)
SaveUpdate(job_id, selected) ==
  /\ dialog.pc = "closed"
  /\ get_job(job_id).exists
  /\ \A k \in 1..Len(selected) : selected[k] # job_id /\ get_job(selected[k]).exists
  /\ dialog' = [pc |-> "read", job_id |-> job_id, existing |-> <<>>, selected |-> selected]
  /\ UNCHANGED <<now, jobs, deps, executions, running_jobs, calls, loop, call_budget, fault_budget>>
  /\ UNCHANGED <<engine, sqlite_sequence, given, file>>

\* line 399: existing_deps = self.job_manager.get_job_dependencies(job_id)
SaveRead ==
  /\ dialog.pc = "read"
  /\ dialog' = [dialog EXCEPT !.pc = "remove",
                              !.existing = get_job_dependencies(deps, dialog.job_id)]
  /\ UNCHANGED <<now, jobs, deps, executions, running_jobs, calls, loop, call_budget, fault_budget>>
  /\ UNCHANGED <<engine, sqlite_sequence, given, file>>

\* lines 400-401: for dep in existing_deps: remove_job_dependency(job_id, dep[...])
\* (one committed DELETE per pass)
SaveRemove ==
  /\ dialog.pc = "remove"
  /\ IF dialog.existing = <<>>
       THEN /\ dialog' = [dialog EXCEPT !.pc = "add"]
            /\ UNCHANGED deps
       ELSE /\ deps' = remove_job_dependency(deps, dialog.job_id, Head(dialog.existing)[2])
            /\ dialog' = [dialog EXCEPT !.existing = Tail(@)]
  /\ UNCHANGED <<now, jobs, executions, running_jobs, calls, loop, call_budget, fault_budget>>
  /\ UNCHANGED <<engine, sqlite_sequence, given, file>>

\* lines 407-411: for idx in selected_indices: add_job_dependency(job_id, dep_job_id)
\* (one committed INSERT per pass), then the dialog is closed
SaveAdd ==
  /\ dialog.pc = "add"
  /\ IF dialog.selected = <<>>
       THEN /\ dialog' = NoDialog
            /\ UNCHANGED deps
       ELSE /\ deps' = add_job_dependency(deps, dialog.job_id, Head(dialog.selected)).deps
            /\ dialog' = [dialog EXCEPT !.selected = Tail(@)]
  /\ UNCHANGED <<now, jobs, executions, running_jobs, calls, loop, call_budget, fault_budget>>
  /\ UNCHANGED <<engine, sqlite_sequence, given, file>>

(* ---------------------------- specification --------------------------- *)
\* a finished run of job 1 left in the store by an earlier session
PriorRun ==
  [ job_id |-> 1, start_time |-> 0, end_time |-> 0, status |-> "completed",
    exit_code |-> 0, retry_count |-> 0, triggered_by |-> "scheduler",
    origin |-> "earlier" ]

\* the engine after SchedulerEngine.__init__ and start(): empty registry, loop
\* thread about to fetch
EngineStarted ==
  /\ now = 0
  /\ running_jobs = {}
  /\ calls = <<>>
  /\ loop = [pc |-> "fetch", jobs |-> <<>>, i |-> 0, wake |-> 0]
  /\ engine = [running |-> TRUE, stop |-> "idle", lock |-> 0, old |-> "none"]

\* a store whose two ids have been handed out, no creator and no export file
\* being followed, no job dialog open
StoreInUse ==
  /\ sqlite_sequence = Cardinality(JobIds)
  /\ given = [j \in JobIds |-> NoJob]
  /\ file = <<>>
  /\ dialog = NoDialog

\* job 1 as the store holds it, with or without the earlier run
Job1(s, ran, retries) ==
  [NewJob(s, retries, TRUE) EXCEPT !.last_run = IF ran THEN 0 ELSE NULL,
                             !.status = IF ran THEN "completed" ELSE "idle"]

\* a store of one job (the row of job 2 is absent)
OneJob(S, R, retries) ==
  /\ \E s1 \in S, ran \in R :
       /\ jobs = [j \in JobIds |-> IF j = 1 THEN Job1(s1, ran, retries)
                                   ELSE [NewJob(s1, 0, FALSE) EXCEPT !.exists = FALSE]]
       /\ executions = IF ran THEN <<PriorRun>> ELSE <<>>
  /\ deps = <<>>

\* a store of two jobs, job 2 depending on job 1
TwoJobs ==
  /\ \E s1 \in {s \in Schedules : s.interval_minutes = 1},
        s2 \in {s \in Schedules : s.schedule_type = "manual" \/ s.interval_minutes = 1},
        ran \in BOOLEAN :
       /\ jobs = [j \in JobIds |-> IF j = 1 THEN Job1(s1, ran, 1) ELSE NewJob(s2, 0, FALSE)]
       /\ executions = IF ran THEN <<PriorRun>> ELSE <<>>
  /\ deps = << <<2, 1>> >>

\* one job, a store that can raise, the job being deleted meanwhile
Init ==
  /\ EngineStarted /\ StoreInUse /\ OneJob(Schedules, BOOLEAN, 1)
  /\ call_budget = MaxCalls /\ fault_budget = MaxFaults

\* a dependency edge, a store that raises nothing
InitDeps == EngineStarted /\ StoreInUse /\ TwoJobs /\ call_budget = MaxCalls /\ fault_budget = 0

\* one job that has not run yet and is not retried, a store that raises nothing
InitTimed ==
  /\ EngineStarted /\ StoreInUse /\ OneJob(Schedules, {FALSE}, 0)
  /\ call_budget = MaxTimedCalls /\ fault_budget = 0

\* the scheduler loop, the execute_job threads and Run Now
Engine ==
  \/ LoopFetch
  \/ LoopEval
  \/ LoopDeps
  \/ LoopSpawn
  \/ \E j \in JobIds : RunJobNow(j)
  \/ \E c \in 1..Len(calls) : Entry(c)
  \/ \E c \in 1..Len(calls) : Load(c)
  \/ \E c \in 1..Len(calls) : CreateExecution(c)
  \/ \E c \in 1..Len(calls) : StatusRunning(c)
  \/ \E c \in 1..Len(calls) : LastRun(c)
  \/ \E c \in 1..Len(calls) : Attempt(c)
  \/ \E c \in 1..Len(calls) : Finalize(c)
  \/ \E c \in 1..Len(calls) : StatusFinal(c)
  \/ \E c \in 1..Len(calls) : Finally(c)

\* the first poll cycle and the calls around it, the job being deleted meanwhile
Next ==
  \/ Engine
  \/ \E j \in JobIds : DeleteJob(j)

Spec == Init /\ [][Next]_vars

\* one job that has not run, retried once, a store that raises nothing
InitStop ==
  /\ EngineStarted /\ StoreInUse
  /\ OneJob({s \in Schedules : s.interval_minutes = 1 \/ s.cron_expression = CronEveryMinute},
            {FALSE}, 1)
  /\ call_budget = MaxCalls /\ fault_budget = 0

\* the engine while the application calls stop()
NextStop ==
  \/ Engine
  \/ StopCall
  \/ StopJoin

SpecStop == InitStop /\ [][NextStop]_vars

\* the engine while the application calls stop() and start() again
NextStart ==
  \/ Engine
  \/ StopCall
  \/ StopJoin
  \/ StartCall
  \/ OldLoopWakes
  \/ OldLoopCycle

SpecStart == InitStop /\ [][NextStart]_vars

\* job 2, run every minute, depends on job 1, a manual job; neither has run;
\* a store that raises nothing
InitSave ==
  /\ EngineStarted /\ StoreInUse
  /\ jobs = [j \in JobIds |->
               IF j = 1
                 THEN NewJob(CHOOSE s \in Schedules : s.schedule_type = "manual", 0, FALSE)
                 ELSE NewJob(CHOOSE s \in Schedules : s.interval_minutes = 1, 0, FALSE)]
  /\ executions = <<>>
  /\ deps = << <<2, 1>> >>
  /\ call_budget = MaxTimedCalls /\ fault_budget = 0

\* the engine while the user saves the dialog of job 2 with job 1 selected, or
\* the dialog of job 1 with nothing selected
NextSave ==
  \/ Engine
  \/ \E j \in JobIds : SaveUpdate(j, Selection(j))
  \/ SaveRead
  \/ SaveRemove
  \/ SaveAdd

SpecSave == InitSave /\ [][NextSave]_vars

\* two interval jobs that depend on each other, job 1 with or without a run
\* recorded before the second edge was added, a store that raises nothing
InitCycle ==
  /\ EngineStarted /\ StoreInUse
  /\ \E s \in {x \in Schedules : x.interval_minutes = 1}, ran \in BOOLEAN :
       /\ jobs = [j \in JobIds |-> IF j = 1 THEN Job1(s, ran, 0) ELSE NewJob(s, 0, FALSE)]
       /\ executions = IF ran THEN <<PriorRun>> ELSE <<>>
  /\ deps = << <<1, 2>>, <<2, 1>> >>
  /\ call_budget = MaxCalls /\ fault_budget = 0

\* the first poll cycle and the calls around it, over a dependency cycle
NextCycle == Engine

SpecCycle == InitCycle /\ [][NextCycle]_vars

\* one job that has not run and is not retried, a store that raises nothing
InitLock ==
  /\ EngineStarted /\ StoreInUse
  /\ OneJob({s \in Schedules : s.interval_minutes = 1 \/ s.schedule_type = "manual"}, {FALSE}, 0)
  /\ call_budget = MaxCalls /\ fault_budget = 0

\* the engine with the acquisitions of self.lock as steps of their own
NextLock ==
  \/ LoopFetch
  \/ LoopEval
  \/ LoopDeps
  \/ LoopSpawn
  \/ \E j \in JobIds : RunJobNow(j)
  \/ \E c \in 1..Len(calls) : EntryAcquire(c)
  \/ \E c \in 1..Len(calls) : EntryLocked(c)
  \/ \E c \in 1..Len(calls) : Load(c)
  \/ \E c \in 1..Len(calls) : CreateExecution(c)
  \/ \E c \in 1..Len(calls) : StatusRunning(c)
  \/ \E c \in 1..Len(calls) : LastRun(c)
  \/ \E c \in 1..Len(calls) : Attempt(c)
  \/ \E c \in 1..Len(calls) : Finalize(c)
  \/ \E c \in 1..Len(calls) : StatusFinal(c)
  \/ \E c \in 1..Len(calls) : FinallyAcquire(c)
  \/ \E c \in 1..Len(calls) : FinallyLocked(c)

SpecLock == InitLock /\ [][NextLock]_vars

\* the first poll cycle and the calls around it, over a dependency edge
NextDeps == Engine

SpecDeps == InitDeps /\ [][NextDeps]_vars

\* poll cycles over time
NextTimed ==
  \/ Engine
  \/ \E j \in JobIds, value \in BOOLEAN : SetEnabled(j, value)
  \/ Tick

SpecTimed == InitTimed /\ [][NextTimed]_vars

\* one enabled job run every minute that has not run yet and is not retried,
\* a store that raises nothing
InitInterval ==
  /\ EngineStarted /\ StoreInUse
  /\ OneJob({s \in Schedules : s.interval_minutes = 1}, {FALSE}, 0)
  /\ call_budget = MaxCalls /\ fault_budget = 0

\* the scheduler loop, Run Now and the execute_job threads over time
NextInterval ==
  \/ Engine
  \/ Tick

SpecInterval == InitInterval /\ [][NextInterval]_vars

\* two independent jobs that have not run, the first on a cron schedule
InitCron ==
  /\ EngineStarted /\ StoreInUse
  /\ \E s1 \in {s \in Schedules : s.schedule_type = "cron"},
        s2 \in {s \in Schedules : s.interval_minutes = 1 \/ s.cron_expression = CronMalformed} :
       jobs = [j \in JobIds |-> IF j = 1 THEN NewJob(s1, 0, FALSE) ELSE NewJob(s2, 0, FALSE)]
  /\ executions = <<>>
  /\ deps = <<>>
  /\ call_budget = MaxCalls /\ fault_budget = 0

\* the scheduler loop alone over time: the threads it starts have not got to
\* run yet
NextCron ==
  \/ LoopFetch
  \/ LoopEval
  \/ LoopDeps
  \/ LoopSpawn
  \/ Tick

SpecCron == InitCron /\ [][NextCron]_vars

\* line 109 once the clock has reached the last reading the model keeps:
\* time.sleep(30) returns, and the readings after it are taken for MaxTime
LateWake ==
  /\ now = MaxTime
  /\ loop.pc = "fetch"
  /\ loop.wake > now
  /\ loop' = [loop EXCEPT !.wake = now]
  /\ UNCHANGED <<now, jobs, deps, executions, running_jobs, calls, call_budget, fault_budget>>
  /\ UNCHANGED others

\* job 1 has a cron expression and ran at time 0; job 2 has a schedule that is
\* never due
InitCronRan ==
  /\ EngineStarted /\ StoreInUse
  /\ \E s1 \in {s \in Schedules : s.cron_expression = CronEveryMinute},
        s2 \in {s \in Schedules : s.interval_minutes # 1 /\ s.cron_expression # CronEveryMinute},
        b \in BOOLEAN :
       jobs = [j \in JobIds |-> IF j = 1 THEN Job1(s1, TRUE, 0)
                                ELSE [NewJob(s2, 0, FALSE) EXCEPT !.enabled = b]]
  /\ executions = <<PriorRun>>
  /\ deps = <<>>
  /\ call_budget = MaxCalls /\ fault_budget = 0

\* the scheduler loop alone, for as long as the application runs
NextCronRan ==
  \/ LoopFetch
  \/ LoopEval
  \/ LoopDeps
  \/ LoopSpawn
  \/ Tick
  \/ LateWake

\* the loop thread is scheduled and the clock moves on
SpecCronRan ==
  /\ InitCronRan /\ [][NextCronRan]_vars
  /\ WF_vars(LoopFetch) /\ WF_vars(LoopEval) /\ WF_vars(LoopDeps) /\ WF_vars(LoopSpawn)
  /\ WF_vars(Tick) /\ WF_vars(LateWake)

\* one manual job that has not run, with each retry ceiling and each
\* notification setting, a store that raises nothing
InitRun ==
  /\ EngineStarted /\ StoreInUse
  /\ \E retries \in 0..MaxRetries, email \in BOOLEAN, on_success \in BOOLEAN, on_failure \in BOOLEAN :
       jobs = [j \in JobIds |->
                 IF j = 1
                   THEN [NewJob(CHOOSE s \in Schedules : s.schedule_type = "manual", retries, email)
                           EXCEPT !.notify_on_success = on_success,
                                  !.notify_on_failure = on_failure]
                   ELSE NoJob]
  /\ executions = <<>>
  /\ deps = <<>>
  /\ call_budget = MaxCalls /\ fault_budget = 0

\* Run Now and the execute_job threads it starts
NextRun ==
  \/ \E j \in JobIds : RunJobNow(j)
  \/ \E c \in 1..Len(calls) : Entry(c)
  \/ \E c \in 1..Len(calls) : Load(c)
  \/ \E c \in 1..Len(calls) : CreateExecution(c)
  \/ \E c \in 1..Len(calls) : StatusRunning(c)
  \/ \E c \in 1..Len(calls) : LastRun(c)
  \/ \E c \in 1..Len(calls) : Attempt(c)
  \/ \E c \in 1..Len(calls) : Finalize(c)
  \/ \E c \in 1..Len(calls) : StatusFinal(c)
  \/ \E c \in 1..Len(calls) : Finally(c)

SpecRun == InitRun /\ [][NextRun]_vars

\* Run Now and the execute_job threads it starts, the end of a run step by step
NextCallback ==
  \/ \E j \in JobIds : RunJobNow(j)
  \/ \E c \in 1..Len(calls) : Entry(c)
  \/ \E c \in 1..Len(calls) : Load(c)
  \/ \E c \in 1..Len(calls) : CreateExecution(c)
  \/ \E c \in 1..Len(calls) : StatusRunning(c)
  \/ \E c \in 1..Len(calls) : LastRun(c)
  \/ \E c \in 1..Len(calls) : Attempt(c)
  \/ \E c \in 1..Len(calls) : Finalize(c)
  \/ \E c \in 1..Len(calls) : StatusFinalUpdate(c)
  \/ \E c \in 1..Len(calls) : Notify(c)
  \/ \E c \in 1..Len(calls) : CompletionCallback(c)
  \/ \E c \in 1..Len(calls) : Finally(c)

SpecCallback == InitRun /\ [][NextCallback]_vars

\* timeout_seconds of the job that has a timeout
TimeoutSeconds == 1

\* one manual job with a timeout that has not run, with each retry ceiling, a
\* store that raises nothing
InitTimeout ==
  /\ EngineStarted /\ StoreInUse
  /\ \E retries \in 0..MaxRetries :
       jobs = [j \in JobIds |->
                 IF j = 1
                   THEN [NewJob(CHOOSE s \in Schedules : s.schedule_type = "manual", retries, FALSE)
                           EXCEPT !.timeout_seconds = TimeoutSeconds]
                   ELSE NoJob]
  /\ executions = <<>>
  /\ deps = <<>>
  /\ call_budget = MaxCalls /\ fault_budget = 0

SpecTimeout == InitTimeout /\ [][NextRun]_vars

\* the job_data a dialog or a script passes: the keys of test_database, or a
\* disabled job with a schedule, a retry ceiling, a timeout and a notification
\* policy
JobData ==
  { [name |-> n, job_type |-> "shell", command |-> "echo", enabled |-> TRUE,
     schedule_type |-> "manual"] : n \in {JobNames[k] : k \in 1..Len(JobNames)} }
  \cup
  { [name |-> n, job_type |-> "python", command |-> "load.py", enabled |-> FALSE,
     schedule_type |-> "interval", interval_minutes |-> 1, max_retries |-> MaxRetries,
     timeout_seconds |-> TimeoutSeconds, notification_email |-> TRUE,
     notify_on_success |-> TRUE, notify_on_failure |-> FALSE] :
       n \in {JobNames[k] : k \in 1..Len(JobNames)} }

\* a database just created, no export file yet, the engine idle
InitJobs ==
  /\ EngineStarted
  /\ jobs = [j \in JobIds |-> NoJob]
  /\ sqlite_sequence = 0
  /\ given = [j \in JobIds |-> NoJob]
  /\ file = <<>>
  /\ dialog = NoDialog
  /\ executions = <<>>
  /\ deps = <<>>
  /\ call_budget = 0 /\ fault_budget = 0

\* jobs created, edited, deleted, exported and imported
NextJobs ==
  \/ \E job_data \in JobData : CreateJob(job_data)
  \/ \E j \in JobIds, job_data \in JobData : UpdateJob(j, job_data)
  \/ \E j \in JobIds : DeleteJob(j)
  \/ ExportJobs
  \/ NewDatabase
  \/ ImportJobs

SpecJobs == InitJobs /\ [][NextJobs]_vars

\* an execution record left by an earlier session
StoredRecord(job_id, start_time, status) ==
  [ job_id |-> job_id, start_time |-> start_time,
    end_time |-> IF status = "running" THEN NULL ELSE start_time,
    status |-> status,
    exit_code |-> IF status = "running" THEN NULL ELSE IF status = "completed" THEN 0 ELSE 1,
    retry_count |-> 0, triggered_by |-> "scheduler", origin |-> "earlier" ]

\* the job_executions tables of earlier sessions: the wall clock may have been
\* set back between two runs, two runs of one job never start at the same time
StoredExecutions ==
  LET R == { StoredRecord(j, t, st) : j \in JobIds, t \in {0, SecondsPerMinute},
                                      st \in {"running", "completed", "failed"} }
  IN  { es \in UNION { [1..n -> R] : n \in 0..MaxRecords } :
          \A a, b \in 1..Len(es) :
            (es[a].job_id = es[b].job_id /\ es[a].start_time = es[b].start_time) => a = b }

\* an interval job as its last recorded run left it
StoredJob(job_id, es) ==
  LET E == {e \in 1..Len(es) : es[e].job_id = job_id}
      last == CHOOSE e \in E : \A f \in E : f <= e
  IN  IF E = {} THEN NewJob(CHOOSE s \in Schedules : s.interval_minutes = 1, 0, FALSE)
      ELSE [NewJob(CHOOSE s \in Schedules : s.interval_minutes = 1, 0, FALSE)
              EXCEPT !.last_run = es[last].start_time, !.status = es[last].status]

\* two interval jobs with the records of earlier sessions and no dependency
\* edge yet, the engine started when both are due
InitStore ==
  /\ now = MaxTime
  /\ running_jobs = {}
  /\ calls = <<>>
  /\ loop = [pc |-> "fetch", jobs |-> <<>>, i |-> 0, wake |-> 0]
  /\ engine = [running |-> TRUE, stop |-> "idle", lock |-> 0, old |-> "none"]
  /\ StoreInUse
  /\ executions \in StoredExecutions
  /\ jobs = [j \in JobIds |-> StoredJob(j, executions)]
  /\ deps = <<>>
  /\ call_budget = MaxTimedCalls /\ fault_budget = 0

\* one poll cycle while the user edits dependencies and deletes jobs
NextStore ==
  \/ LoopFetch
  \/ LoopEval
  \/ LoopDeps
  \/ LoopSpawn
  \/ \E j \in JobIds, p \in JobIds : AddDependency(j, p)
  \/ \E j \in JobIds, p \in JobIds : RemoveDependency(j, p)
  \/ \E j \in JobIds : DeleteJob(j)

SpecStore == InitStore /\ [][NextStore]_vars

(* ================================ claims =============================== *)
\* a call past the registry check-and-insert that has not returned
Active(c) == calls[c].pc \notin {"entry", "done"}

ActiveCalls(job_id) == {c \in 1..Len(calls) : Active(c) /\ calls[c].job_id = job_id}

\* the step in which call c leaves its check-and-insert
LeavesEntry(c) == calls[c].pc = "entry" /\ calls'[c].pc # "entry"

\* the step in which a thread is started on execute_job from the given call site
Started(origin) ==
  /\ Len(calls') = Len(calls) + 1
  /\ calls'[Len(calls')].origin = origin

\* the step in which an execution record is inserted
Inserted == Len(executions') = Len(executions) + 1

\* the most recent execution of every prerequisite of the job is completed
PrerequisitesCompleted(job_id) ==
  \A d \in 1..Len(deps) : deps[d][1] = job_id =>
    \E e \in 1..Len(executions) :
      /\ executions[e].job_id = deps[d][2]
      /\ executions[e].status = "completed"
      /\ \A f \in 1..Len(executions) : executions[f].job_id = deps[d][2] => f <= e

\* the step in which the loop decides should_run for the row it is at
Evaluates(job) ==
  /\ loop.pc = "eval"
  /\ job = loop.jobs[loop.i]
  /\ job.id \notin running_jobs
  /\ loop' # loop

MarksDue == loop'.pc = "deps"

\* C1: for every job id at most one execute_job call is past the registry
\* check-and-insert at any moment, whatever the interleaving of scheduler
\* dispatches and Run Now calls.
C1_AtMostOnePastEntry ==
  \A j \in JobIds : Cardinality(ActiveCalls(j)) <= 1

\* a second call for the id arrives while the first is past the check
C1_Witness ==
  \E c1, c2 \in 1..Len(calls) :
    /\ Active(c1)
    /\ calls[c2].pc = "entry"
    /\ calls[c2].job_id = calls[c1].job_id
    /\ calls[c1].origin # calls[c2].origin

\* C2: an execute_job call that finds its id in the running registry returns
\* at once and changes nothing: no execution record, no job field, no status
\* callback, and the registry keeps the id of the call in progress.
C2_BlockedCallChangesNothing ==
  [][\A c \in 1..Len(calls) :
       (LeavesEntry(c) /\ calls[c].job_id \in running_jobs) =>
         /\ calls'[c].pc = "done"
         /\ calls'[c].callbacks = <<>>
         /\ executions' = executions
         /\ jobs' = jobs
         /\ running_jobs' = running_jobs
         /\ \A d \in 1..Len(calls) : d # c => calls'[d] = calls[d]]_vars

\* the second call has returned while the first, which has made no record yet,
\* is still in progress
C2_Witness ==
  /\ Len(calls) = 2
  /\ calls[1].pc = "load"
  /\ calls[2].pc = "done"
  /\ executions = <<>>
  /\ jobs[1].exists
  /\ fault_budget = MaxFaults

\* C3: every execute_job call that inserted its id removes it before it
\* returns, on every exit path: the registry holds exactly the ids of the
\* calls in progress.
C3_RegistryIsCallsInProgress ==
  running_jobs = {j \in JobIds : ActiveCalls(j) # {}}

\* every call has returned, one of them through an exception
C3_Witness ==
  /\ Len(calls) >= 1
  /\ \A c \in 1..Len(calls) : calls[c].pc = "done"
  /\ fault_budget < MaxFaults
  /\ \E e \in 1..Len(executions) : executions[e].status = "running"

\* C4: the scheduler loop starts a thread for a job only while the most
\* recent execution of each of its prerequisites is completed.
C4_DispatchOnlyWhenPrerequisitesCompleted ==
  [][Started("scheduler") => PrerequisitesCompleted(calls'[Len(calls')].job_id)]_vars

\* C5: no execution record is created for a job, by whatever trigger, unless
\* the most recent execution of each of its prerequisites is completed.
C5_RunOnlyAfterDependencies ==
  [][Inserted => PrerequisitesCompleted(executions'[Len(executions')].job_id)]_vars

C7_TriggerSourceIsCallSite ==
  \A e \in 1..Len(executions) :
    executions[e].origin \in {"manual", "scheduler"} =>
      executions[e].triggered_by = executions[e].origin

\* C8: the scheduler loop never starts a thread for a job whose schedule kind
\* is manual, in any poll cycle.
C8_ManualNeverDispatched ==
  [][Started("scheduler") =>
       jobs[calls'[Len(calls')].job_id].schedule_type # "manual"]_vars

\* a manual job that has run (by Run Now) and is enabled has been through a
\* poll cycle that began after that run
C8_Witness ==
  /\ jobs[1].schedule_type = "manual"
  /\ jobs[1].enabled
  /\ jobs[1].last_run = 0
  /\ loop.pc = "fetch"
  /\ loop.wake > SecondsPerMinute

\* C9: a poll cycle marks an interval job (interval of a minute or more) due
\* when it has no last run, and once a run has set its last run no poll cycle
\* marks it due before last_run + interval_minutes.
C9_IntervalDueOnlyAfterInterval ==
  [][\A k \in 1..Len(loop.jobs) :
       LET job == loop.jobs[k] IN
       (Evaluates(job) /\ job.schedule_type = "interval" /\ job.interval_minutes >= 1) =>
         /\ jobs[job.id].last_run = NULL => MarksDue
         /\ (MarksDue /\ jobs[job.id].last_run # NULL) =>
              now >= jobs[job.id].last_run + job.interval_minutes * SecondsPerMinute]_vars

\* C10 as claimed: a poll cycle marks a cron job due if and only if it has
\* no last run, or the occurrence is <= now and more than 60 seconds have
\* passed since its last run (the job as the cycle fetched it).
C10_CronDueAsClaimed ==
  [][\A k \in 1..Len(loop.jobs) :
       LET job == loop.jobs[k] IN
       (Evaluates(job) /\ job.schedule_type = "cron") =>
         (MarksDue <=>
            \/ job.last_run = NULL
            \/ /\ ((now \div SecondsPerMinute) + 1) * SecondsPerMinute <= now'
               /\ now' - job.last_run > 60)]_vars

\* C10 as amended: that rule holds of a cron job whose expression is present
\* and parses; a cron job without expression, or with one croniter rejects,
\* is not marked due.
C10_CronDueWhenExpressionParses ==
  [][\A k \in 1..Len(loop.jobs) :
       LET job == loop.jobs[k] IN
       (Evaluates(job) /\ job.schedule_type = "cron") =>
         IF job.cron_expression = CronEveryMinute
           THEN MarksDue <=>
                  \/ job.last_run = NULL
                  \/ /\ ((now \div SecondsPerMinute) + 1) * SecondsPerMinute <= now'
                     /\ now' - job.last_run > 60
           ELSE ~MarksDue]_vars

\* a cron job that ran at 0 is marked due again by the cycle that evaluates
\* it when the occurrence at 120 has come
C10_Witness ==
  /\ loop.pc = "deps"
  /\ loop.jobs[loop.i].schedule_type = "cron"
  /\ loop.jobs[loop.i].cron_expression = CronEveryMinute
  /\ loop.jobs[loop.i].last_run = 0
  /\ now = 2 * SecondsPerMinute

\* C11: a malformed cron expression makes its job not due for the cycle and
\* leaves the loop running: the cycle goes on to the next fetched job, or, the
\* job being the last, sleeps for the next cycle; nothing is written.
C11_MalformedCronSkipsOnlyItsJob ==
  [][\A k \in 1..Len(loop.jobs) :
       LET job == loop.jobs[k] IN
       (Evaluates(job) /\ job.schedule_type = "cron" /\ job.cron_expression = CronMalformed) =>
         /\ ~MarksDue
         /\ jobs' = jobs
         /\ IF loop.i < Len(loop.jobs)
              THEN loop' = [loop EXCEPT !.i = loop.i + 1]
              ELSE loop'.pc = "fetch" /\ loop'.wake = now' + 30]_vars

\* job 1 has a malformed expression, job 2 was dispatched in the same cycles,
\* and the loop has finished a second cycle
C11_Witness ==
  /\ jobs[1].cron_expression = CronMalformed
  /\ \E c \in 1..Len(calls) : calls[c].job_id = 2 /\ calls[c].origin = "scheduler"
  /\ loop.pc = "fetch"
  /\ loop.wake = SecondsPerMinute + 30

\* the step in which call c takes its program counter from one place to another
Goes(c, from, to) == calls[c].pc = from /\ calls'[c].pc = to

\* the execution record call c created
RecordOf(c) == executions[calls[c].execution_id]

\* C12: with max_retries = N, a call whose every attempt exits non-zero leaves
\* the retry loop after exactly N+1 attempts and finalizes its record as failed
\* with stored retry count N; having created its record, the call creates no
\* other.
C12_AllFailingRunsMakeNPlusOneAttempts ==
  [][\A c \in 1..Len(calls) :
       LET N == jobs[calls[c].job_id].max_retries IN
       /\ (Goes(c, "finalize", "status_final")
             /\ \A k \in 1..Len(calls[c].attempts) : calls[c].attempts[k] # 0) =>
            /\ Len(calls[c].attempts) = N + 1
            /\ executions'[calls[c].execution_id].status = "failed"
            /\ executions'[calls[c].execution_id].retry_count = N
       /\ (calls[c].execution_id # 0 /\ calls'[c] # calls[c]) =>
            Len(executions') = Len(executions)]_vars

\* a job with max_retries 2 has a run recorded as failed after three attempts
C12_Witness ==
  \E c \in 1..Len(calls) :
    /\ calls[c].pc = "status_final"
    /\ calls[c].attempts = <<1, 1, 1>>
    /\ jobs[calls[c].job_id].max_retries = 2
    /\ RecordOf(c).status = "failed"
    /\ RecordOf(c).retry_count = 2
    /\ Len(executions) = 1

\* C13: the retry count stored when a record is finalized is 0 if the first
\* attempt succeeded and otherwise the number of attempts performed minus one.
C13_StoredRetryCountIsAttemptsMinusOne ==
  [][\A c \in 1..Len(calls) :
       Goes(c, "finalize", "status_final") =>
         executions'[calls[c].execution_id].retry_count =
           IF calls[c].attempts[1] = 0 THEN 0 ELSE Len(calls[c].attempts) - 1]_vars

\* C14: a record is finalized as completed if and only if some attempt
\* returned exit code 0, otherwise as failed, and the job's status field is
\* then set to the record's status.
C14_FinalStatusFollowsAttempts ==
  [][\A c \in 1..Len(calls) :
       /\ Goes(c, "finalize", "status_final") =>
            executions'[calls[c].execution_id].status =
              IF \E k \in 1..Len(calls[c].attempts) : calls[c].attempts[k] = 0
                THEN "completed" ELSE "failed"
       /\ Goes(c, "status_final", "finally") =>
            /\ RecordOf(c).status \in {"completed", "failed"}
            /\ jobs'[calls[c].job_id].status = RecordOf(c).status]_vars

\* a run that failed an attempt and then succeeded is completed, in its record
\* and in the job's status field
C14_Witness ==
  \E c \in 1..Len(calls) :
    /\ calls[c].pc = "finally"
    /\ calls[c].attempts = <<1, 0>>
    /\ RecordOf(c).status = "completed"
    /\ jobs[calls[c].job_id].status = "completed"

\* C15: the status of an execution record only moves from running to
\* completed or to failed, and a record that is completed or failed is never
\* changed again, in any field, by any later step, later runs of its job
\* included.
C15_FinalizedRecordsAreFinal ==
  [][\A e \in 1..Len(executions) :
       /\ e <= Len(executions')
       /\ executions[e].status \in {"completed", "failed"} => executions'[e] = executions[e]
       /\ executions'[e].status # executions[e].status =>
            /\ executions[e].status = "running"
            /\ executions'[e].status \in {"completed", "failed"}]_vars

\* a job has a completed run on record and a later run of it has been
\* finalized as failed
C15_Witness ==
  /\ Len(executions) = 2
  /\ executions[1].job_id = executions[2].job_id
  /\ executions[1].status = "completed"
  /\ executions[2].status = "failed"
  /\ executions[2].origin # "earlier"

\* C16: every dependency edge and every execution record references an
\* existing job: once delete_job(j) has run the store holds no edge with j as
\* dependent or as prerequisite and no execution record of j.
C16_NoReferenceToDeletedJob ==
  /\ \A k \in 1..Len(deps) : jobs[deps[k][1]].exists /\ jobs[deps[k][2]].exists
  /\ \A e \in 1..Len(executions) : jobs[executions[e].job_id].exists

\* C17: add_job_dependency(job, prerequisite) inserts the edge and returns
\* True when the ordered pair is absent, returns False and leaves the table
\* unchanged when it is present; the table never holds the same ordered pair
\* twice.
C17_DependencyPairsAreUnique ==
  /\ \A a, b \in 1..Len(deps) : deps[a] = deps[b] => a = b
  /\ \A j, p \in JobIds :
       LET added == add_job_dependency(deps, j, p) IN
       IF \A k \in 1..Len(deps) : deps[k] # <<j, p>>
         THEN /\ added.result = TRUE
              /\ Len(added.deps) = Len(deps) + 1
              /\ added.deps[Len(deps) + 1] = <<j, p>>
              /\ \A k \in 1..Len(deps) : added.deps[k] = deps[k]
         ELSE /\ added.result = FALSE
              /\ added.deps = deps

\* both edges between the two jobs are stored, each once
C17_Witness ==
  /\ Len(deps) = 2
  /\ deps[1] = <<1, 2>>
  /\ deps[2] = <<2, 1>>

\* C18: the loop's dependency check passes for a job if and only if every
\* direct prerequisite has an execution record and the one with the latest
\* start time is completed (no edge, nothing to require); what the
\* prerequisites themselves depend on is not looked at.
C18_DependenciesMetIffLatestCompleted ==
  [][(loop.pc = "deps" /\ loop' # loop) =>
       LET job_id == loop.jobs[loop.i].id IN
       (loop'.pc = "spawn") <=>
         \A k \in 1..Len(deps) : deps[k][1] = job_id =>
           \E e \in 1..Len(executions) :
             /\ executions[e].job_id = deps[k][2]
             /\ executions[e].status = "completed"
             /\ \A f \in 1..Len(executions) :
                  executions[f].job_id = deps[k][2] =>
                    executions[f].start_time <= executions[e].start_time]_vars

\* the check has passed for a job whose prerequisite's latest run by start
\* time is completed, although a run inserted after it failed and although the
\* prerequisite depends in turn on this job, which never completed a run
C18_Witness ==
  /\ loop.pc = "spawn"
  /\ LET job_id == loop.jobs[loop.i].id
         p == 3 - job_id
     IN  /\ deps = << <<job_id, p>>, <<p, job_id>> >>
         /\ Len(executions) = 2
         /\ executions[1] = StoredRecord(p, SecondsPerMinute, "completed")
         /\ executions[2] = StoredRecord(p, 0, "failed")

\* C19: a call that has created its execution record invokes the status
\* callback once with running, before the first attempt, and once with the
\* final status, after the record is finalized: when the call returns the
\* callbacks it made are exactly those two, in that order.
C19_CallbackAtStartAndAtCompletion ==
  [][\A c \in 1..Len(calls) :
       /\ calls[c].attempts # <<>> =>
            Len(calls[c].callbacks) >= 1 /\ calls[c].callbacks[1] = "running"
       /\ Len(calls[c].callbacks) >= 2 =>
            /\ calls[c].pc = "finally"
            /\ RecordOf(c).status \in {"completed", "failed"}
       /\ (Goes(c, "finally", "done") /\ calls[c].execution_id # 0) =>
            calls[c].callbacks = <<"running", RecordOf(c).status>>]_vars

\* a run that was retried is about to return, having made the two callbacks
C19_Witness ==
  \E c \in 1..Len(calls) :
    /\ calls[c].pc = "finally"
    /\ Len(calls[c].attempts) = 2
    /\ calls[c].callbacks = <<"running", "failed">>

\* C20: when a run is finalized the notifier is invoked if and only if the
\* job has a notification target and the outcome matches its flags (completed
\* with notify_on_success, failed with notify_on_failure); it is invoked at
\* most once per run, the record holding the final status before and the job's
\* status field with it.
C20_NotifierFollowsFlags ==
  [][\A c \in 1..Len(calls) :
       LET job == jobs[calls[c].job_id] IN
       /\ calls[c].notified <= 1
       /\ Goes(c, "status_final", "finally") =>
            /\ calls'[c].notified = calls[c].notified + 1 <=>
                 /\ job.notification_email
                 /\ \/ RecordOf(c).status = "completed" /\ job.notify_on_success
                    \/ RecordOf(c).status = "failed" /\ job.notify_on_failure
            /\ calls'[c].notified \in {calls[c].notified, calls[c].notified + 1}
       /\ calls'[c].notified # calls[c].notified /\ calls'[c].pc # "done" =>
            /\ Goes(c, "status_final", "finally")
            /\ RecordOf(c).status \in {"completed", "failed"}
            /\ jobs'[calls[c].job_id].status = RecordOf(c).status]_vars

\* a completed run of a job that notifies on success only has notified
C20_Witness ==
  \E c \in 1..Len(calls) :
    /\ calls[c].pc = "finally"
    /\ calls[c].notified = 1
    /\ RecordOf(c).status = "completed"
    /\ jobs[calls[c].job_id].notify_on_success
    /\ ~jobs[calls[c].job_id].notify_on_failure

\* C21: after stop() has returned the scheduler loop starts no further
\* execute_job thread, not even for the rows left of a poll cycle that was in
\* progress when stop() was called.
C21_NoDispatchAfterStop ==
  [][Started("scheduler") => engine.stop # "returned"]_vars

C23_TimeoutIsFailedAttempt ==
  [][\A c \in 1..Len(calls) :
       /\ (calls[c].pc = "attempt" /\ calls'[c].timeouts = calls[c].timeouts + 1) =>
            /\ calls'[c].exit_code = 1
            /\ calls'[c].error_output = TimeoutMarker
            /\ ~calls'[c].success
            /\ calls'[c].retry_count = calls[c].retry_count + 1
            /\ calls'[c].attempts = Append(calls[c].attempts, 1)
       /\ (Goes(c, "finalize", "status_final") /\ calls[c].timeouts = Len(calls[c].attempts)) =>
            /\ executions'[calls[c].execution_id].status = "failed"
            /\ executions'[calls[c].execution_id].exit_code = 1
            /\ Len(calls[c].attempts) = calls[c].job.max_retries + 1
    ]_vars

\* a call retried once, both attempts timed out, its record finalized
C23_Witness ==
  \E c \in 1..Len(calls) :
    /\ calls[c].pc = "status_final"
    /\ calls[c].timeouts = 2 /\ calls[c].attempts = <<1, 1>>
    /\ calls[c].error_output = TimeoutMarker
    /\ RecordOf(c).status = "failed"

\* the row holds the values of the job_data it was created with
HoldsValues(row, job_data) == \A col \in DOMAIN job_data : row[col] = job_data[col]

\* C25: create_job returns an id under which get_job returns the job with the
\* values given at creation, as long as that job is not itself edited or
\* deleted, whatever other jobs are created, edited or deleted meanwhile; an id
\* never handed out, or one whose job was deleted, gives no job, then and later.
C25_GetJobReturnsWhatWasCreated ==
  [][/\ \A j \in JobIds :
          /\ (given'[j].exists /\ given'[j] # given[j]) => get_job(j)'.exists
          /\ (given'[j].exists /\ get_job(j)'.exists) =>
               HoldsValues(get_job(j)', given'[j].job_data)
          /\ (j <= sqlite_sequence /\ j <= sqlite_sequence' /\ ~get_job(j).exists) =>
               ~get_job(j)'.exists
          /\ j > sqlite_sequence' => ~get_job(j)'.exists
    ]_vars

\* a job created after another was created and deleted: both ids handed out,
\* the first gone, the second holding what its creator passed
C25_Witness ==
  /\ sqlite_sequence = 2
  /\ ~get_job(1).exists
  /\ given[2].exists /\ get_job(2).exists
  /\ get_job(2).name = given[2].job_data.name
  /\ get_job(2).name = JobNames[1]

\* the columns that define a job: name, kind, command, schedule kind and
\* parameter, enabled flag, retry, timeout and notification policy
DefinitionFields ==
  { "name", "job_type", "command", "schedule_type", "cron_expression", "interval_minutes",
    "enabled", "max_retries", "timeout_seconds", "notification_email",
    "notify_on_success", "notify_on_failure" }

\* the step in which import_jobs fills a store that holds no job
ImportsIntoEmptyStore ==
  /\ \A j \in JobIds : ~get_job(j).exists
  /\ file # <<>> /\ file' = file
  /\ given' = given
  /\ jobs' # jobs

\* C24: export_jobs writes one record per job of the store, holding the job's
\* definition fields, and import_jobs of that file into an empty store creates
\* one job per record with the definition fields of the record.
C24_ExportImportKeepsDefinitions ==
  [][/\ file' # file =>
          /\ Len(file') = Cardinality({j \in JobIds : get_job(j).exists})
          /\ \A j \in JobIds : get_job(j).exists =>
               \E k \in 1..Len(file') :
                 /\ file'[k].id = JsonValue("id", j)
                 /\ \A col \in DefinitionFields :
                      PythonValue(col, file'[k][col]) = get_job(j)[col]
     /\ ImportsIntoEmptyStore =>
          /\ Cardinality({j \in JobIds : get_job(j)'.exists}) = Len(file)
          /\ \A k \in 1..Len(file) :
               \E j \in JobIds :
                 /\ get_job(j)'.exists
                 /\ \A col \in DefinitionFields :
                      JsonValue(col, get_job(j)'[col]) = file[k][col]
    ]_vars

\* two exported jobs imported: the record of the disabled python job "a", which
\* had id 2, is job 1 of the new store, disabled, with its schedule, retry
\* ceiling, timeout and notification policy
C24_Witness ==
  /\ Len(file) = 2
  /\ file[1].id = JsonValue("id", 2)
  /\ sqlite_sequence = 2
  /\ \A j \in JobIds : ~given[j].exists
  /\ \A k \in 1..2 :
       /\ get_job(k).exists
       /\ \A col \in DefinitionFields : JsonValue(col, get_job(k)[col]) = file[k][col]
  /\ get_job(1).name = JobNames[1]
  /\ ~get_job(1).enabled
  /\ get_job(1).job_type = "python"
  /\ get_job(1).timeout_seconds = TimeoutSeconds

\* some execution of the job has completed
HasCompleted(job_id) ==
  \E e \in 1..Len(executions) :
    executions[e].job_id = job_id /\ executions[e].status = "completed"

\* C26 as claimed: when the dependency edges form a cycle, every member is
\* reported unmet by the dependency check at all times and the scheduler loop
\* never dispatches one, whatever operations follow.
C26_CycleMembersNeverDispatched ==
  [][/\ \A j \in JobIds : ~check_dependencies_met(j)
     /\ ~Started("scheduler")
    ]_vars

\* C26: when the dependency edges form a cycle, a member is reported unmet as
\* long as no execution of one of its prerequisites has completed, and the
\* scheduler loop dispatches a member only when an execution of its
\* prerequisite has completed, hence none before an execution the loop did not
\* dispatch (one recorded earlier, or a manual trigger) has completed.
C26_CycleMemberWaitsForCompletedRun ==
  [][/\ \A j \in JobIds :
          (\E p \in Prerequisites(j) : ~HasCompleted(p)) => ~check_dependencies_met(j)
     /\ Started("scheduler") =>
          /\ \A p \in Prerequisites(calls'[Len(calls')].job_id) : HasCompleted(p)
          /\ \E e \in 1..Len(executions) :
               executions[e].status = "completed" /\ executions[e].origin # "scheduler"
    ]_vars

\* no execution recorded earlier: job 1 was run by hand and completed, and the
\* loop has dispatched job 2
C26_Witness ==
  /\ Len(executions) >= 1
  /\ executions[1].job_id = 1
  /\ executions[1].origin = "manual"
  /\ executions[1].status = "completed"
  /\ \E c \in 1..Len(calls) : calls[c].origin = "scheduler" /\ calls[c].job_id = 2

LoopReadsRegistry == loop.pc = "eval" /\ loop' # loop

\* C28: the scheduler loop tests the running registry under the lock that
\* execute_job holds for its check-and-insert and for its removal, so the test
\* never happens while a call is inside one of those critical sections.
C28_LoopReadsRegistryUnderLock ==
  [][LoopReadsRegistry => engine.lock \notin 1..Len(calls)]_vars

\* C29: an execute_job call that finds no job under its id (the job was
\* deleted before the call loaded it) goes from the load straight to its
\* finally clause and returns: it inserts no execution record, writes no job
\* row, makes no status callback, and its id is out of the registry when it
\* returns.
C29_MissingJobLeavesNoTrace ==
  [][\A c \in 1..Len(calls) :
       /\ (calls[c].pc = "load" /\ ~get_job(calls[c].job_id).exists /\ calls'[c] # calls[c]) =>
            /\ calls'[c].pc = "finally"
            /\ calls'[c].job = NoJob
            /\ calls'[c].callbacks = <<>>
            /\ executions' = executions /\ jobs' = jobs
       /\ (Goes(c, "finally", "done") /\ calls[c].job = NoJob) =>
            /\ calls[c].execution_id = 0
            /\ calls[c].callbacks = <<>>
            /\ executions' = executions /\ jobs' = jobs
            /\ calls[c].job_id \notin running_jobs'
    ]_vars

\* a call that inserted its id, found its job deleted and is about to return
C29_Witness ==
  \E c \in 1..Len(calls) :
    /\ calls[c].pc = "finally"
    /\ calls[c].inserted
    /\ calls[c].job = NoJob
    /\ ~get_job(calls[c].job_id).exists
    /\ calls[c].job_id \in running_jobs
    /\ fault_budget = MaxFaults

\* C30: the scheduler loop dispatches only jobs that are enabled and whose id
\* is not in the running registry; a disabled job is never dispatched by the
\* loop, and a row whose id is in the registry is passed over without a
\* due-ness evaluation or a next-run write.
C30_DispatchOnlyEnabledAndIdle ==
  [][/\ Started("scheduler") =>
          /\ get_job(calls'[Len(calls')].job_id).exists
          /\ get_job(calls'[Len(calls')].job_id).enabled
          /\ calls'[Len(calls')].job_id \notin running_jobs
     /\ (LoopReadsRegistry /\ loop.jobs[loop.i].id \in running_jobs) =>
          /\ loop' = EndOfJob(loop, now)
          /\ jobs' = jobs /\ now' = now
    ]_vars

\* C31: for a job whose max_retries is N >= 0, the retry loop of a call ends
\* after at least one and at most N + 1 attempts: an attempt is made only
\* while no attempt has returned exit code 0 and fewer than N + 1 have been
\* made, every attempt that does not return 0 (an exception out of the run
\* body included) leaves exit code 1 and counts once, and time.sleep(delay)
\* has been called once before every attempt but the first.
C31_RetryLoopTerminates ==
  [][\A c \in 1..Len(calls) :
       /\ (calls[c].pc = "attempt" /\ calls'[c] # calls[c]) =>
            /\ ~calls[c].success
            /\ 0 \notin {calls[c].attempts[k] : k \in 1..Len(calls[c].attempts)}
            /\ Len(calls[c].attempts) <= calls[c].job.max_retries
            /\ Len(calls'[c].attempts) = Len(calls[c].attempts) + 1
            /\ calls'[c].sleeps = Len(calls[c].attempts)
            /\ calls'[c].exit_code = calls'[c].attempts[Len(calls'[c].attempts)]
            /\ calls'[c].exit_code \in {0, 1}
            /\ calls'[c].retry_count =
                 calls[c].retry_count + (IF calls'[c].exit_code = 0 THEN 0 ELSE 1)
       /\ Goes(c, "attempt", "finalize") =>
            /\ Len(calls'[c].attempts) >= 1
            /\ Len(calls'[c].attempts) <= calls[c].job.max_retries + 1
            /\ calls'[c].success \/ Len(calls'[c].attempts) = calls[c].job.max_retries + 1
    ]_vars

\* a call of a job with max_retries = 2 that left the loop on its second
\* attempt, the first having failed, after one sleep
C31_Witness ==
  \E c \in 1..Len(calls) :
    /\ calls[c].pc = "finalize"
    /\ calls[c].job.max_retries = 2
    /\ calls[c].attempts = <<1, 0>>
    /\ calls[c].sleeps = 1

\* C33: each job has at most one execution record with status running.
C33_OneRunningRecordPerJob ==
  \A e1 \in 1..Len(executions) : \A e2 \in 1..Len(executions) :
    ( /\ executions[e1].job_id = executions[e2].job_id
      /\ executions[e1].status = "running"
      /\ executions[e2].status = "running" ) => e1 = e2

\* C34: when a call that created an execution record leaves through the
\* finally clause, the record is completed or failed with its end time set
\* and the job's status is not running.
C34_RecordFinalizedBeforeReturn ==
  [][\A c \in 1..Len(calls) :
       (Goes(c, "finally", "done") /\ calls[c].execution_id # 0) =>
         /\ RecordOf(c).status \in {"completed", "failed"}
         /\ RecordOf(c).end_time # NULL
         /\ jobs'[calls[c].job_id].status # "running"
    ]_vars

\* C37: at the step that makes the completion status callback of a run, the
\* execution record and the job's status field hold the final status and the
\* job id is in the running registry, before and after the step; the call
\* that releases the id has made its completion callback already.
C37_CallbackSeesFinalStatus ==
  [][\A c \in 1..Len(calls) :
       /\ (calls[c].pc = "callback" /\ calls'[c] # calls[c]) =>
            /\ calls'[c].callbacks = <<"running", FinalStatus(calls[c])>>
            /\ RecordOf(c).status = FinalStatus(calls[c])
            /\ RecordOf(c).end_time # NULL
            /\ jobs[calls[c].job_id].status = FinalStatus(calls[c])
            /\ calls[c].job_id \in running_jobs
            /\ calls[c].job_id \in running_jobs'
       /\ ( /\ calls[c].execution_id # 0
            /\ calls'[c] # calls[c]
            /\ calls[c].job_id \in running_jobs
            /\ calls[c].job_id \notin running_jobs' ) =>
            /\ Len(calls[c].callbacks) = 2
            /\ calls[c].pc = "finally"
    ]_vars

\* the completion callback of a failed run has been made and the id is not
\* released yet
C37_Witness ==
  \E c \in 1..Len(calls) :
    /\ calls[c].pc = "finally"
    /\ calls[c].callbacks = <<"running", "failed">>
    /\ jobs[calls[c].job_id].status = "failed"
    /\ calls[c].job_id \in running_jobs

\* C38: when a poll cycle finds an interval job that has run not due, the
\* next_run the store holds for the job after that evaluation is the last_run
\* of the fetched row plus interval_minutes.
C38_NextRunFollowsLastRun ==
  [][( /\ loop.pc = "eval"
       /\ loop' # loop
       /\ ~InRunningJobs(loop.jobs[loop.i].id)
       /\ loop.jobs[loop.i].schedule_type = "interval"
       /\ Truthy(loop.jobs[loop.i].interval_minutes)
       /\ loop.jobs[loop.i].last_run # NULL
       /\ ~IntervalDue(loop.jobs[loop.i], now)
       /\ jobs[loop.jobs[loop.i].id].exists ) =>
       jobs'[loop.jobs[loop.i].id].next_run =
         loop.jobs[loop.i].last_run
           + loop.jobs[loop.i].interval_minutes * SecondsPerMinute
    ]_vars

\* C39: two execution records that dispatches of the scheduler loop created
\* for one interval job have start times at least interval_minutes apart.
C39_LoopRunsAnIntervalApart ==
  \A e1 \in 1..Len(executions) : \A e2 \in 1..Len(executions) :
    ( /\ e1 < e2
      /\ executions[e1].job_id = executions[e2].job_id
      /\ executions[e1].origin = "scheduler"
      /\ executions[e2].origin = "scheduler"
      /\ jobs[executions[e1].job_id].schedule_type = "interval"
      /\ Truthy(jobs[executions[e1].job_id].interval_minutes) ) =>
      executions[e2].start_time - executions[e1].start_time >=
        jobs[executions[e1].job_id].interval_minutes * SecondsPerMinute

\* C35: at most one scheduler loop thread is polling: the thread that an
\* earlier start() made is not in a poll cycle while the thread of the latest
\* start() is alive.
C35_OneLoopPolling == ~(engine.old = "polling" /\ loop.pc # "exited")

\* C36: while the dialog of a job is being saved with prerequisite A among
\* the selected dependencies, the scheduler loop starts no thread for the job
\* unless the latest execution of A is completed.
C36_SaveKeepsDependencyGate ==
  [][\A a \in JobIds :
       ( /\ Started("scheduler")
         /\ dialog.pc # "closed"
         /\ calls'[Len(calls')].job_id = dialog.job_id
         /\ \/ a \in {dialog.selected[k] : k \in 1..Len(dialog.selected)}
            \/ <<dialog.job_id, a>> \in {deps[k] : k \in 1..Len(deps)} ) =>
         /\ LatestExecution(a) # 0
         /\ executions[LatestExecution(a)].status = "completed"
    ]_vars

\* C32: an enabled cron job with its dependencies met that has run, once an
\* occurrence of its expression after the last run has passed and more than
\* 60 seconds have gone by since that run and no run of it is under way or
\* about to start, is marked due by a poll cycle.
C32_CronJobRunsAgain ==
  \A j \in JobIds :
    ( /\ jobs[j].exists /\ jobs[j].enabled
      /\ jobs[j].schedule_type = "cron" /\ CronValid(jobs[j].cron_expression)
      /\ jobs[j].last_run # NULL
      /\ croniter_get_next(jobs[j].cron_expression, jobs[j].last_run) <= now
      /\ now - jobs[j].last_run > DebounceSeconds
      /\ check_dependencies_met(j)
      /\ ~InRunningJobs(j)
      /\ \A c \in 1..Len(calls) : calls[c].job_id # j )
    ~> ( /\ loop.pc \in {"deps", "spawn"}
         /\ loop.jobs[loop.i].id = j )

====
